---- MODULE Spec2Model ----
(***************************************************************************)
(* State-machine model of the weather layer engine of                      *)
(* assets/interface/weather.interface.js (class WeatherInterface): layer   *)
(* lifecycle (show / hide / toggle / refresh), zoom-category transitions,  *)
(* the tile prefetch queue, and the map rendering library the class        *)
(* drives (Mapbox GL: sources and layers keyed by string id).              *)
(*                                                                         *)
(* Every handler of the class is a pure operator over a record `s` of the  *)
(* class's static fields and of the map's state, named as in the source;   *)
(* an action applies one handler (one JavaScript macrotask together with   *)
(* the microtasks it triggers) to the current state.  Zoom values are in   *)
(* tenths (zoom 1.5 is 15), longitudes in tenths of a degree.              *)
(*                                                                         *)
(* Timers are kept in one FIFO queue per delay (100, 200, 1000 ms): two    *)
(* timers of the same delay fire in the order they were set, timers of     *)
(* different delays and network completions interleave freely.             *)
(***************************************************************************)
EXTENDS Integers, Sequences, FiniteSets, TLC

VARIABLES
    isInitialized,            \* static isInitialized
    activeWeatherLayers,      \* static activeWeatherLayers (absent key = FALSE)
    activeKeys,               \* insertion order of activeWeatherLayers' keys
    weatherLayers,            \* static weatherLayers: layer id -> record
    currentZoomLevel,         \* static currentZoomLevel
    zoomChangeDebounceTimer,  \* pending 300 ms debounce timer (its newZoom) or NoTimer
    tileCache,                \* static tileCache, as the set of its keys
    currentViewport,          \* static currentViewport
    prefetchQueue,            \* static prefetchQueue
    prefetchInProgress,       \* static prefetchInProgress
    mapLayers,                \* the map's layers: id -> [visibility, gen]
    mapSources,               \* the map's sources (ids)
    mapZoom,                  \* map.getZoom()
    mapCenter,                \* map.getCenter(): [lng, lat]
    fetches,                  \* createTransitionLayer calls awaiting tile metadata
    eventFetches,             \* fetch('/api/weather/hurricane') calls in flight
    timers100,                \* pending setTimeout(..., 100) callbacks, FIFO
    timers200,                \* pending setTimeout(..., 200) callbacks, FIFO
    timers1000,               \* pending setTimeout(..., 1000) callbacks, FIFO
    uncommitted,              \* << layer, category >> of the transitions started and not settled
    userOps,                  \* calls and map moves of the user so far
    lastOp,                   \* the handler that ran last, and what it found
    probe,                    \* input / output of the pure-function specifications
    clock,                    \* the browser's time, and the zoom-end events on it
    server                    \* the server's WeatherService: cache, calls, time

vars == << isInitialized, activeWeatherLayers, activeKeys, weatherLayers,
           currentZoomLevel, zoomChangeDebounceTimer, tileCache, currentViewport,
           prefetchQueue, prefetchInProgress, mapLayers, mapSources, mapZoom,
           mapCenter, fetches, eventFetches, timers100, timers200, timers1000,
           uncommitted, userOps, lastOp, probe, clock, server >>

----------------------------------------------------------------------------
(* Bounds of the model *)

\* toggleLayer / showLayer / hideLayer calls and zoom-end events of the map in
\* one session of Spec, where the user makes any call on any layer
MaxUserOps == 3
\* the same in one session of SpecZoom, where the user toggles the tile-backed
\* layers and zooms
MaxZoomOps == 4
\* zoom-end events in one session of SpecDebounce, and the time it runs for
\* (in units of 100 ms)
MaxBurstEvents == 4
MaxClock == 10
\* getCurrentWeather calls in one session of SpecServer
MaxRequests == 3
\* toggles and moves of the map in one session of SpecViewport
MaxMoves == 3

----------------------------------------------------------------------------
(* Program constants *)

\* zoomLevels["REGIONAL"].min, zoomLevels["LOCAL"].min, zoomLevels.LOCAL.max (tenths)
RegionalMin == 30
LocalMin == 80
LocalMax == 220
\* createLocalTemperatureLayer adds point data from zoom 10
PointsMinZoom == 100
\* shouldPrefetchNewTiles thresholds: 0.5 zoom levels, 0.2 degrees
ZoomDelta == 5
CenterDelta == 2
\* initCityLabels flies the map to zoom 1.5
InitialZoom == 15
\* the crossfade reaches half a zoom level past each end of the boundary
HalfZoom == 5

Categories == {"GLOBAL", "REGIONAL", "LOCAL"}

\* static zoomLevels
zoomLevels ==
    [c \in Categories |->
        CASE c = "GLOBAL"   -> [min |-> 0,           max |-> RegionalMin]
          [] c = "REGIONAL" -> [min |-> RegionalMin, max |-> LocalMin]
          [] c = "LOCAL"    -> [min |-> LocalMin,    max |-> LocalMax]]

\* the tile-backed layer ids, as listed in handleZoomChange and prefetchTiles
TileBacked == {"temperature", "precipitation", "wind", "cloud"}
\* the layer ids of the model: two tile-backed layers, the city labels that
\* follow the temperature layer, and one layer built from fetched event data
LayerIds == {"temperature", "precipitation", "cities", "hurricane"}
RecordIds == LayerIds \cup {"transitions"}

\* the zoom values the user moves the map to: the initial one (GLOBAL) and
\* one across the GLOBAL / REGIONAL boundary
ZoomChoices == {InitialZoom, 50}
\* the answers of /api/weather/tiles to a metadata request (TRUE: a 2xx
\* answer): in the sessions of Spec the service is up
TileServiceAnswers == {TRUE}

NoTimer == -1
\* the delay of the zoom debounce timer, 300 ms, in units of 100 ms
DebounceDelay == 3
\* stdTTL of the server's NodeCache, in seconds
StdTTL == 1800
\* where initCityLabels' flyTo centers the map: [0, 20], in tenths of a degree
Origin == [lng |-> 0, lat |-> 200]
\* the map calls that throw while a handler runs: the number of the call in
\* the builder's try block and in the placeholder's (0: none throws)
NoFault == [builder |-> 0, fallback |-> 0]
NoRecord == [exists |-> FALSE, visibility |-> "none", zoomCategory |-> "",
             layers |-> << >>]

----------------------------------------------------------------------------
(* Helpers on sequences *)

Range(seq) == {seq[i] : i \in 1..Len(seq)}

RECURSIVE FilterOut(_, _)
\* Array.prototype.filter(id => !ids.includes(id))
FilterOut(seq, ids) ==
    IF seq = << >> THEN << >>
    ELSE IF Head(seq) \in ids THEN FilterOut(Tail(seq), ids)
         ELSE << Head(seq) >> \o FilterOut(Tail(seq), ids)

----------------------------------------------------------------------------
(* getZoomCategory *)

\* getZoomCategory with > in place of >=
getZoomCategoryStrict(zoom) ==
    IF zoom > zoomLevels["LOCAL"].min THEN "LOCAL"
    ELSE IF zoom > zoomLevels["REGIONAL"].min THEN "REGIONAL"
    ELSE "GLOBAL"

\* getZoomCategory that tests the REGIONAL limit first
getZoomCategoryRegionalFirst(zoom) ==
    IF zoom >= zoomLevels["REGIONAL"].min THEN "REGIONAL"
    ELSE IF zoom >= zoomLevels["LOCAL"].min THEN "LOCAL"
    ELSE "GLOBAL"

getZoomCategory(zoom) ==
    IF zoom >= zoomLevels["LOCAL"].min THEN "LOCAL"
    ELSE IF zoom >= zoomLevels["REGIONAL"].min THEN "REGIONAL"
    ELSE "GLOBAL"

toLowerCase(cat) ==
    CASE cat = "GLOBAL" -> "global"
      [] cat = "REGIONAL" -> "regional"
      [] cat = "LOCAL" -> "local"

----------------------------------------------------------------------------
(* The map rendering library (Mapbox GL JS), as the class uses it.         *)
(* Layers and sources live in maps keyed by id.  addLayer with an id that  *)
(* exists reports an error event and changes nothing; addSource with an id *)
(* that exists throws; removeSource of a source a layer still uses reports *)
(* an error event and removes nothing.                                     *)

getLayer(s, id) == id \in DOMAIN s.mapLayers
getSource(s, id) == id \in s.mapSources

\* the source a layer was added with
SourceUsers(s, sourceId) ==
    {id \in DOMAIN s.mapLayers : s.mapLayers[id].source = sourceId}

addLayer(s, id, sourceId, gen) ==
    IF getLayer(s, id) THEN s
    ELSE [s EXCEPT !.mapLayers =
            (id :> [visibility |-> "visible", source |-> sourceId, gen |-> gen])
            @@ s.mapLayers]

\* removedAbsent notes a removal called for an id that is not on the map
removeLayer(s, id) ==
    [s EXCEPT !.mapLayers = [i \in (DOMAIN s.mapLayers) \ {id} |-> s.mapLayers[i]],
              !.removedAbsent = @ \/ ~getLayer(s, id)]

addSource(s, sourceId) ==
    [s EXCEPT !.mapSources = s.mapSources \cup {sourceId}]

removeSource(s, sourceId) ==
    IF SourceUsers(s, sourceId) # {} THEN s
    ELSE [s EXCEPT !.mapSources = s.mapSources \ {sourceId},
                   !.removedAbsent = @ \/ ~getSource(s, sourceId)]

setLayoutProperty(s, id, visibility) ==
    [s EXCEPT !.mapLayers[id].visibility = visibility]

\* if (map.getLayer(id)) map.setLayoutProperty(id, 'visibility', v)
SetVisibilityIfPresent(s, id, visibility) ==
    IF getLayer(s, id) THEN setLayoutProperty(s, id, visibility) ELSE s

RECURSIVE SetVisibilityAll(_, _, _)
\* layers.forEach(id => { if (map.getLayer(id)) map.setLayoutProperty(id, 'visibility', v) })
SetVisibilityAll(s, ids, visibility) ==
    IF ids = << >> THEN s
    ELSE SetVisibilityAll(SetVisibilityIfPresent(s, Head(ids), visibility),
                          Tail(ids), visibility)

\* if (map.getLayer(id)) map.removeLayer(id)
RemoveLayerIfPresent(s, id) ==
    IF getLayer(s, id) THEN removeLayer(s, id) ELSE s

\* if (map.getSource(id)) map.removeSource(id)
RemoveSourceIfPresent(s, id) ==
    IF getSource(s, id) THEN removeSource(s, id) ELSE s

\* if (!map.getSource(id)) map.addSource(id, ...)
AddSourceIfAbsent(s, id) ==
    IF getSource(s, id) THEN s ELSE addSource(s, id)

RECURSIVE RemoveLayersAndSources(_, _)
\* layers.forEach(id => { if (getLayer(id)) removeLayer(id); if (getSource(id)) removeSource(id) })
RemoveLayersAndSources(s, ids) ==
    IF ids = << >> THEN s
    ELSE RemoveLayersAndSources(
             RemoveSourceIfPresent(RemoveLayerIfPresent(s, Head(ids)), Head(ids)),
             Tail(ids))

RECURSIVE RemoveLayersUnguarded(_, _)
\* ids.forEach(id => map.removeLayer(id)), without the getLayer test
RemoveLayersUnguarded(s, ids) ==
    IF ids = << >> THEN s
    ELSE RemoveLayersUnguarded(removeLayer(s, Head(ids)), Tail(ids))

RECURSIVE RemoveLayers(_, _)
\* ids.forEach(id => { if (map.getLayer(id)) map.removeLayer(id) });
\* skipped notes that the test found an id absent
RemoveLayers(s, ids) ==
    IF ids = << >> THEN s
    ELSE RemoveLayers(IF getLayer(s, Head(ids)) THEN removeLayer(s, Head(ids))
                      ELSE [s EXCEPT !.skipped = TRUE],
                      Tail(ids))

\* activeWeatherLayers[layerId] = value (a new key goes last in Object.keys)
SetActive(s, layerId, value) ==
    [s EXCEPT !.activeWeatherLayers[layerId] = value,
              !.activeKeys = IF layerId \in Range(s.activeKeys) THEN s.activeKeys
                             ELSE Append(s.activeKeys, layerId)]

----------------------------------------------------------------------------
(* Prefetch scheduler *)

\* prefetchTiles: the promise settles at once for a layer that is not
\* tile-backed or a key already cached (then the .then callback of
\* processPrefetchQueue sets the 100 ms pacing timer in the same macrotask),
\* and after the simulated 200 ms network delay otherwise
ProcessTimer == [kind |-> "process", layer |-> "", visibility |-> ""]

\* a consumer that puts the task it has tried back in the queue
TaskSettledRetries(s, item) ==
    [s EXCEPT !.timers100 = Append(s.timers100, ProcessTimer),
              !.prefetchQueue = Append(s.prefetchQueue, item)]

\* the .then and the .catch callback of processPrefetchQueue: both set the
\* 100 ms pacing timer, the .catch callback after logging the error
TaskSettled(s, item) ==
    [s EXCEPT !.timers100 = Append(s.timers100, ProcessTimer)]

prefetchTiles(s, item) ==
    IF item.layerId \notin TileBacked \/ item \in s.tileCache.prefetched
    THEN TaskSettled(s, item)
    ELSE [s EXCEPT !.timers200 = Append(s.timers200, item)]

\* processPrefetchQueue that leaves prefetchInProgress set on an empty queue
processPrefetchQueueStaysBusy(s) ==
    IF s.prefetchQueue = << >>
    THEN s
    ELSE prefetchTiles([s EXCEPT !.prefetchInProgress = TRUE,
                                 !.prefetchQueue = Tail(s.prefetchQueue),
                                 !.popped = TRUE],
                       Head(s.prefetchQueue))

\* popped notes that the call took a task off the queue
processPrefetchQueue(s) ==
    IF s.prefetchQueue = << >>
    THEN [s EXCEPT !.prefetchInProgress = FALSE]
    ELSE prefetchTiles([s EXCEPT !.prefetchInProgress = TRUE,
                                 !.prefetchQueue = Tail(s.prefetchQueue),
                                 !.popped = TRUE],
                       Head(s.prefetchQueue))

RECURSIVE ActiveTasks(_, _)
\* Object.keys(activeWeatherLayers).forEach(layerId => { if (active) queue.push(...) })
ActiveTasks(s, keys) ==
    IF keys = << >> THEN << >>
    ELSE LET layerId == Head(keys)
             rest == ActiveTasks(s, Tail(keys))
         IN IF s.activeWeatherLayers[layerId]
            THEN << [layerId |-> layerId,
                     center |-> s.currentViewport.center,
                     zoom |-> s.currentViewport.zoom,
                     zoomCategory |-> getZoomCategory(s.currentViewport.zoom)] >> \o rest
            ELSE rest

\* if (!this.prefetchInProgress) this.processPrefetchQueue()
StartConsumer(s) ==
    IF ~s.prefetchInProgress THEN processPrefetchQueue(s) ELSE s

queueTilePrefetch(s) ==
    StartConsumer([s EXCEPT !.prefetchQueue = ActiveTasks(s, s.activeKeys),
                            !.queued = TRUE])

\* shouldPrefetchNewTiles that measures the move along the longitude only
shouldPrefetchNewTilesLng(s, previousViewport) ==
    LET dz == s.currentViewport.zoom - previousViewport.zoom
        dx == previousViewport.center.lng - s.currentViewport.center.lng
    IN \/ ~previousViewport.hasBounds
       \/ (IF dz < 0 THEN -dz ELSE dz) > ZoomDelta
       \/ dx * dx > CenterDelta * CenterDelta

\* shouldPrefetchNewTiles: Math.sqrt(dx^2 + dy^2) > 0.2 as the comparison of
\* the squares, in tenths of a degree
shouldPrefetchNewTiles(s, previousViewport) ==
    LET dz == s.currentViewport.zoom - previousViewport.zoom
        dx == previousViewport.center.lng - s.currentViewport.center.lng
        dy == previousViewport.center.lat - s.currentViewport.center.lat
    IN \/ ~previousViewport.hasBounds
       \/ (IF dz < 0 THEN -dz ELSE dz) > ZoomDelta
       \/ dx * dx + dy * dy > CenterDelta * CenterDelta

\* if (this.shouldPrefetchNewTiles(previousViewport)) this.queueTilePrefetch()
PrefetchAfterMove(s, previousViewport) ==
    IF shouldPrefetchNewTiles(s, previousViewport) THEN queueTilePrefetch(s) ELSE s

updateViewport(s) ==
    PrefetchAfterMove([s EXCEPT !.currentViewport =
                         [hasBounds |-> TRUE, center |-> s.mapCenter, zoom |-> s.mapZoom]],
                      s.currentViewport)

----------------------------------------------------------------------------
(* Layer builders.  A sub-builder returns the new state and the layerIds   *)
(* array it pushed to.                                                     *)

addMajorClimateZones(b) ==
    [s |-> addLayer(addLayer(AddSourceIfAbsent(b.s, "climate-zones-source"),
                             "climate-zones-lines", "climate-zones-source", 0),
                    "climate-zones-labels", "climate-zones-source", 0),
     layerIds |-> b.layerIds \o << "climate-zones-lines", "climate-zones-labels" >>]

createGlobalTemperatureLayer(b) ==
    addMajorClimateZones(
        [s |-> addLayer(AddSourceIfAbsent(b.s, "temperature-global-tiles"),
                        "temperature-global-layer", "temperature-global-tiles", 0),
         layerIds |-> Append(b.layerIds, "temperature-global-layer")])

createRegionalTemperatureLayer(b) ==
    [s |-> addLayer(AddSourceIfAbsent(b.s, "temperature-regional-tiles"),
                    "temperature-regional-layer", "temperature-regional-tiles", 0),
     layerIds |-> Append(b.layerIds, "temperature-regional-layer")]

addLocalTemperaturePoints(b) ==
    [s |-> addLayer(addLayer(AddSourceIfAbsent(b.s, "temperature-points-source"),
                             "temperature-points-heat", "temperature-points-source", 0),
                    "temperature-points-values", "temperature-points-source", 0),
     layerIds |-> b.layerIds \o << "temperature-points-heat", "temperature-points-values" >>]

\* if (this.map.getZoom() >= 10) this.addLocalTemperaturePoints(layerIds)
PointsIfClose(b) ==
    IF b.s.mapZoom >= PointsMinZoom THEN addLocalTemperaturePoints(b) ELSE b

createLocalTemperatureLayer(b) ==
    PointsIfClose(
        [s |-> addLayer(AddSourceIfAbsent(b.s, "temperature-local-tiles"),
                        "temperature-local-layer", "temperature-local-tiles", 0),
         layerIds |-> Append(b.layerIds, "temperature-local-layer")])

\* the switch of createTemperatureLayer over the zoom category
TemperatureSublayers(b, zoomCategory) ==
    CASE zoomCategory = "GLOBAL" -> createGlobalTemperatureLayer(b)
      [] zoomCategory = "REGIONAL" -> createRegionalTemperatureLayer(b)
      [] zoomCategory = "LOCAL" -> createLocalTemperatureLayer(b)
      [] OTHER -> createGlobalTemperatureLayer(b)

\* this.weatherLayers.temperature = { layers: layerIds, zoomCategory, visibility }
RecordTemperature(b, zoomCategory) ==
    [b.s EXCEPT !.weatherLayers["temperature"] =
        [exists |-> TRUE, visibility |-> "visible", zoomCategory |-> zoomCategory,
         layers |-> b.layerIds]]

\* the calls of map.addSource (behind its getSource test) and map.addLayer a
\* builder makes, in their order
SourceCall(id) == [add |-> "source", id |-> id, source |-> ""]
LayerCall(id, sourceId) == [add |-> "layer", id |-> id, source |-> sourceId]

TemperatureCalls(s, zoomCategory) ==
    CASE zoomCategory = "REGIONAL" ->
           << SourceCall("temperature-regional-tiles"),
              LayerCall("temperature-regional-layer", "temperature-regional-tiles") >>
      [] zoomCategory = "LOCAL" ->
           << SourceCall("temperature-local-tiles"),
              LayerCall("temperature-local-layer", "temperature-local-tiles") >>
           \o (IF s.mapZoom >= PointsMinZoom
               THEN << SourceCall("temperature-points-source"),
                       LayerCall("temperature-points-heat", "temperature-points-source"),
                       LayerCall("temperature-points-values", "temperature-points-source") >>
               ELSE << >>)
      [] OTHER ->
           << SourceCall("temperature-global-tiles"),
              LayerCall("temperature-global-layer", "temperature-global-tiles"),
              SourceCall("climate-zones-source"),
              LayerCall("climate-zones-lines", "climate-zones-source"),
              LayerCall("climate-zones-labels", "climate-zones-source") >>

FallbackCalls ==
    << SourceCall("temperature-fallback-source"),
       LayerCall("temperature-fallback-layer", "temperature-fallback-source"),
       LayerCall("temperature-fallback-text", "temperature-fallback-source") >>

PrecipitationCalls ==
    << SourceCall("precipitation-tiles"),
       LayerCall("precipitation-layer", "precipitation-tiles") >>

\* one call of a builder
MapCall(s, call) ==
    IF call.add = "source" THEN AddSourceIfAbsent(s, call.id)
    ELSE addLayer(s, call.id, call.source, 0)

RECURSIVE RunCalls(_, _)
RunCalls(s, calls) ==
    IF calls = << >> THEN s
    ELSE RunCalls(MapCall(s, Head(calls)), Tail(calls))

\* a try block whose call number `step` throws: the calls before it have
\* been made
ThrowsAt(s, calls, step) == RunCalls(s, SubSeq(calls, 1, step - 1))

\* createFallbackTemperatureLayer: the placeholder is built and recorded;
\* when one of its own map calls throws, its catch block reports it
createFallbackTemperatureLayer(s) ==
    IF s.fault.fallback \in 1..Len(FallbackCalls)
    THEN [ThrowsAt(RemoveLayersAndSources(s, s.weatherLayers["temperature"].layers),
                   FallbackCalls, s.fault.fallback)
            EXCEPT !.fallbackThrown = TRUE]
    ELSE [RunCalls(RemoveLayersAndSources(s, s.weatherLayers["temperature"].layers),
                   FallbackCalls)
            EXCEPT !.weatherLayers["temperature"] =
                [exists |-> TRUE, visibility |-> "visible", zoomCategory |-> "",
                 layers |-> << "temperature-fallback-layer", "temperature-fallback-text" >>]]

\* createTemperatureLayer: the sublayers of the zoom category are built and
\* recorded; when a map call of the try block throws, the catch block
\* builds the placeholder
createTemperatureLayer(s, zoomCategory) ==
    IF s.fault.builder \in 1..Len(TemperatureCalls(s, zoomCategory))
    THEN createFallbackTemperatureLayer(
             [ThrowsAt(RemoveLayersAndSources(s, s.weatherLayers["temperature"].layers),
                       TemperatureCalls(s, zoomCategory), s.fault.builder)
                EXCEPT !.thrown = TRUE])
    ELSE RecordTemperature(
             TemperatureSublayers(
                 [s |-> RemoveLayersAndSources(s, s.weatherLayers["temperature"].layers),
                  layerIds |-> << >>],
                 zoomCategory),
             zoomCategory)

\* createPrecipitationLayer whose catch block clears the map
createPrecipitationLayerResets(s) ==
    IF s.fault.builder \in 1..Len(PrecipitationCalls)
    THEN [s EXCEPT !.mapLayers = << >>, !.thrown = TRUE]
    ELSE [addLayer(AddSourceIfAbsent(
                       RemoveLayersAndSources(s, s.weatherLayers["precipitation"].layers),
                       "precipitation-tiles"),
                   "precipitation-layer", "precipitation-tiles", 0)
            EXCEPT !.weatherLayers["precipitation"] =
                 [exists |-> TRUE, visibility |-> "visible", zoomCategory |-> "",
                  layers |-> << "precipitation-layer" >>]]

\* createPrecipitationLayer without the getSource guard of its addSource: on a
\* re-creation addSource throws, the catch block logs, and nothing is added
createPrecipitationLayerUnguarded(s) ==
    LET s1 == RemoveLayersAndSources(s, s.weatherLayers["precipitation"].layers)
    IN IF getSource(s1, "precipitation-tiles") THEN s1
       ELSE LET s3 == addLayer(addSource(s1, "precipitation-tiles"),
                               "precipitation-layer", "precipitation-tiles", 0)
            IN [s3 EXCEPT !.weatherLayers["precipitation"] =
                    [exists |-> TRUE, visibility |-> "visible", zoomCategory |-> "",
                     layers |-> << "precipitation-layer" >>]]

\* the class defines createPrecipitationLayer twice; the later definition
\* (one source, one layer, no zoom category) is the one that runs
\* when a map call of its try block throws, the catch block reports it
createPrecipitationLayer(s) ==
    IF s.fault.builder \in 1..Len(PrecipitationCalls)
    THEN [ThrowsAt(RemoveLayersAndSources(s, s.weatherLayers["precipitation"].layers),
                   PrecipitationCalls, s.fault.builder)
            EXCEPT !.thrown = TRUE]
    ELSE [addLayer(AddSourceIfAbsent(
                       RemoveLayersAndSources(s, s.weatherLayers["precipitation"].layers),
                       "precipitation-tiles"),
                   "precipitation-layer", "precipitation-tiles", 0)
            EXCEPT !.weatherLayers["precipitation"] =
                 [exists |-> TRUE, visibility |-> "visible", zoomCategory |-> "",
                  layers |-> << "precipitation-layer" >>]]

\* createHurricaneLayer is called by fetchLayerData but defined nowhere in
\* the class: a builder as section 4.4 of the specification describes the
\* others (a fresh creation supersedes the sublayers recorded for the id)
createHurricaneLayer(s, zoomCategory) ==
    [addLayer(AddSourceIfAbsent(
                  RemoveLayersAndSources(s, s.weatherLayers["hurricane"].layers),
                  "hurricane-source"),
              "hurricane-layer", "hurricane-source", 0)
       EXCEPT !.weatherLayers["hurricane"] =
            [exists |-> TRUE, visibility |-> "visible", zoomCategory |-> zoomCategory,
             layers |-> << "hurricane-layer" >>]]

\* initCityLabels; map.flyTo starts an animation whose end is a later
\* zoom-end / move-end event of the map (ZoomEnd below)
initCityLabels(s) ==
    SetActive(
        [addLayer(addSource(RemoveSourceIfPresent(
                                RemoveLayers(s, << "city-labels", "city-points",
                                                   "city-temp-labels", "city-name-labels" >>),
                                "city-labels-source"),
                            "city-labels-source"),
                  "city-labels", "city-labels-source", 0)
           EXCEPT !.weatherLayers["cities"] =
                 [exists |-> TRUE, visibility |-> "visible", zoomCategory |-> "",
                  layers |-> << "city-labels" >>]],
        "cities", TRUE)

\* the `cities` case of fetchLayerData and the temperature branch of showLayer
ShowCityLabels(s) ==
    IF s.weatherLayers["cities"].exists
    THEN [SetVisibilityAll(s, s.weatherLayers["cities"].layers, "visible")
            EXCEPT !.weatherLayers["cities"].visibility = "visible"]
    ELSE initCityLabels(s)

\* the switch of fetchLayerData over the layer id
FetchByLayer(s, layerId, zoomCategory) ==
    CASE layerId = "temperature" -> createTemperatureLayer(s, zoomCategory)
      [] layerId = "precipitation" -> createPrecipitationLayer(s)
      [] layerId = "cities" -> ShowCityLabels(s)
      [] layerId = "hurricane" ->
           [s EXCEPT !.eventFetches[zoomCategory] = @ + 1]
      [] OTHER -> s

\* if (this.currentViewport.bounds && wanted) this.queueTilePrefetch()
PrefetchInView(s, wanted) ==
    IF s.currentViewport.hasBounds /\ wanted THEN queueTilePrefetch(s) ELSE s

fetchLayerData(s, layerId, zoomCategory) ==
    PrefetchInView(
        FetchByLayer(SetActive([s EXCEPT !.built = TRUE], layerId, TRUE),
                     layerId, zoomCategory),
        TRUE)

----------------------------------------------------------------------------
(* Layer lifecycle *)

\* showLayer without its "already exists" branch: every show fetches and builds
\* showLayer's temperature branch: the city labels are shown with the layer
CitiesWithTemperature(s, layerId) ==
    IF layerId = "temperature"
    THEN ShowCityLabels(SetActive(s, "cities", TRUE))
    ELSE s

\* the first branch of showLayer: the sublayers of a layer that exists are
\* made visible, a layer that does not is fetched and built
RevealOrFetch(s, layerId) ==
    LET rec == s.weatherLayers[layerId]
    IN IF rec.exists /\ Len(rec.layers) > 0
       THEN [SetVisibilityAll(s, rec.layers, "visible")
               EXCEPT !.weatherLayers[layerId].visibility = "visible"]
       ELSE fetchLayerData(s, layerId, getZoomCategory(s.mapZoom))

showLayerRebuilds(s, layerId) ==
    PrefetchInView(
        CitiesWithTemperature(
            SetActive(fetchLayerData(s, layerId, getZoomCategory(s.mapZoom)),
                      layerId, TRUE),
            layerId),
        layerId \in TileBacked)

showLayer(s, layerId) ==
    PrefetchInView(
        CitiesWithTemperature(SetActive(RevealOrFetch(s, layerId), layerId, TRUE),
                              layerId),
        layerId \in TileBacked)

TransitionId(layerId, from, to) == layerId \o "-transition-" \o from \o "-" \o to

\* String.prototype.startsWith over the ids the engine gives to layers
startsWith(id, prefix) == id \in {prefix, prefix \o "-from", prefix \o "-to"}

RECURSIVE HideTransitionLayers(_, _, _)
HideTransitionLayers(s, ids, layerId) ==
    IF ids = << >> THEN s
    ELSE LET id == Head(ids)
             transitionPrefixes == {TransitionId(layerId, "GLOBAL", "REGIONAL"),
                                    TransitionId(layerId, "REGIONAL", "LOCAL")}
             s1 == IF (\E prefix \in transitionPrefixes : startsWith(id, prefix))
                      /\ getLayer(s, id)
                   THEN setLayoutProperty(s, id, "none") ELSE s
         IN HideTransitionLayers(s1, Tail(ids), layerId)

\* the first step of hideLayer: the sublayers recorded for the layer are hidden
HideSublayers(s, layerId) ==
    LET rec == s.weatherLayers[layerId]
    IN IF rec.exists
       THEN [SetVisibilityAll(s, rec.layers, "none")
               EXCEPT !.weatherLayers[layerId].visibility = "none"]
       ELSE s

\* the first step of a hideLayer that takes the sublayers off the map
RemoveSublayers(s, layerId) ==
    LET rec == s.weatherLayers[layerId]
    IN IF rec.exists
       THEN [RemoveLayers(s, rec.layers)
               EXCEPT !.weatherLayers[layerId].visibility = "none"]
       ELSE s

\* the second step of hideLayer: the transition layers of the layer are hidden
HideTransitionsOf(s, layerId) ==
    IF s.weatherLayers["transitions"].exists
    THEN HideTransitionLayers(s, s.weatherLayers["transitions"].layers, layerId)
    ELSE s

\* hideLayer's temperature branch: the city labels are hidden with the layer
HideCitiesWithTemperature(s, layerId) ==
    IF layerId = "temperature"
    THEN HideSublayers(SetActive(s, "cities", FALSE), "cities")
    ELSE s

\* hideLayer without the special handling of the city labels
hideLayerKeepsCities(s, layerId) ==
    SetActive(HideTransitionsOf(HideSublayers(s, layerId), layerId), layerId, FALSE)

\* hideLayer that takes the sublayers off the map instead of hiding them
hideLayerRemoves(s, layerId) ==
    HideCitiesWithTemperature(
        SetActive(HideTransitionsOf(RemoveSublayers(s, layerId), layerId), layerId, FALSE),
        layerId)

hideLayer(s, layerId) ==
    HideCitiesWithTemperature(
        SetActive(HideTransitionsOf(HideSublayers(s, layerId), layerId), layerId, FALSE),
        layerId)

\* this.activeWeatherLayers['cities'] = this.activeWeatherLayers['temperature']
CitiesFollowTemperature(s, layerId) ==
    IF layerId = "temperature"
    THEN SetActive(s, "cities", s.activeWeatherLayers["temperature"])
    ELSE s

RECURSIVE ShowOrHideEach(_, _, _)
\* for each id of ids in turn:
\* if (this.activeWeatherLayers[layerId]) this.showLayer(id) else this.hideLayer(id)
ShowOrHideEach(s, ids, layerId) ==
    IF ids = << >> THEN s
    ELSE ShowOrHideEach(IF s.activeWeatherLayers[layerId]
                        THEN showLayer(s, Head(ids))
                        ELSE hideLayer(s, Head(ids)),
                        Tail(ids), layerId)

\* a toggle of the temperature shows or hides the city labels and then the
\* layer; a toggle of the city labels returns before showing or hiding
toggleLayer(s, layerId) ==
    ShowOrHideEach(
        CitiesFollowTemperature(SetActive(s, layerId, ~s.activeWeatherLayers[layerId]),
                                layerId),
        CASE layerId = "temperature" -> << "cities", "temperature" >>
          [] layerId = "cities" -> << >>
          [] OTHER -> << layerId >>,
        layerId)

----------------------------------------------------------------------------
(* Transition engine *)

TransitionSourceId(layerId, zoomCategory) ==
    layerId \o "-" \o toLowerCase(zoomCategory) \o "-tiles"

\* the stops of the two raster-opacity expressions: fromZoom - 0.5 and
\* toZoom + 0.5, fromZoom = zoomLevels[from].max, toZoom = zoomLevels[to].min
OpacityStops(fromZoomCategory, toZoomCategory) ==
    [lo |-> zoomLevels[fromZoomCategory].max - HalfZoom,
     hi |-> zoomLevels[toZoomCategory].min + HalfZoom]

\* the map validates a layer before it adds it: the inputs of an interpolate
\* expression must be strictly ascending, otherwise addLayer reports an error
\* event and adds nothing
ValidStops(stops) == stops.lo < stops.hi

\* ['interpolate', ['linear'], ['zoom'], lo, atLo, hi, atHi] at a zoom, as the
\* numerator of a fraction over (hi - lo); atLo and atHi are 0 or 1
Interpolate(zoom, stops, atLo, atHi) ==
    IF zoom <= stops.lo THEN atLo * (stops.hi - stops.lo)
    ELSE IF zoom >= stops.hi THEN atHi * (stops.hi - stops.lo)
    ELSE atLo * (stops.hi - stops.lo) + (zoom - stops.lo) * (atHi - atLo)

\* raster-opacity of the `-from` sublayer: 1 at fromZoom - 0.5, 0 at toZoom + 0.5
fromLayerOpacity(zoom, fromZoomCategory, toZoomCategory) ==
    Interpolate(zoom, OpacityStops(fromZoomCategory, toZoomCategory), 1, 0)

\* the `-to` sublayer given the outputs of the `-from` sublayer
toLayerOpacitySame(zoom, fromZoomCategory, toZoomCategory) ==
    Interpolate(zoom, OpacityStops(fromZoomCategory, toZoomCategory), 1, 0)

\* raster-opacity of the `-to` sublayer: 0 at fromZoom - 0.5, 1 at toZoom + 0.5
toLayerOpacity(zoom, fromZoomCategory, toZoomCategory) ==
    Interpolate(zoom, OpacityStops(fromZoomCategory, toZoomCategory), 0, 1)

\* getTileMetadata up to its first await: TRUE when the metadata is not in
\* tileCache and a request to /api/weather/tiles is sent
MetadataMissing(s, layerId, zoomCategory) ==
    << layerId, zoomCategory >> \notin s.tileCache.metadata

\* a tag for the createTransitionLayer call: the least one no live call,
\* settle timer or sublayer carries
NextGen(s) ==
    LET used == {t.gen : t \in s.fetches}
                \cup {s.timers1000[i].gen : i \in 1..Len(s.timers1000)}
                \cup {s.mapLayers[id].gen : id \in DOMAIN s.mapLayers}
    IN CHOOSE g \in 1..(Cardinality(used) + 1) :
          g \notin used /\ \A h \in 1..(g - 1) : h \in used

\* createTransitionLayer up to its await: the removals, and the two
\* getTileMetadata calls started
createTransitionLayer(s, layerId, fromZoomCategory, toZoomCategory) ==
    LET transitionId == TransitionId(layerId, fromZoomCategory, toZoomCategory)
        s1 == RemoveLayers(s, << transitionId \o "-from", transitionId \o "-to" >>)
        s2 == IF getSource(s1, TransitionSourceId(layerId, fromZoomCategory))
              THEN removeSource(s1, TransitionSourceId(layerId, fromZoomCategory)) ELSE s1
        s3 == IF getSource(s2, TransitionSourceId(layerId, toZoomCategory))
              THEN removeSource(s2, TransitionSourceId(layerId, toZoomCategory)) ELSE s2
        task == [layer |-> layerId, from |-> fromZoomCategory, to |-> toZoomCategory,
                 gen |-> NextGen(s),
                 waitFrom |-> MetadataMissing(s3, layerId, fromZoomCategory),
                 waitTo |-> MetadataMissing(s3, layerId, toZoomCategory)]
    IN [s3 EXCEPT !.fetches = @ \cup {task},
                  !.uncommitted = @ \cup {<< layerId, toZoomCategory >>}]

refreshLayer(s, layerId, zoomCategory) ==
    IF ~s.activeWeatherLayers[layerId] THEN s
    ELSE LET rec == s.weatherLayers[layerId]
             currentVisibility == IF rec.exists THEN rec.visibility ELSE "visible"
             s1 == fetchLayerData(s, layerId, zoomCategory)
         IN [s1 EXCEPT !.timers100 = Append(s1.timers100,
                [kind |-> "restore", layer |-> layerId, visibility |-> currentVisibility])]

\* the callback of the 100 ms timer of refreshLayer
RestoreVisibility(s, timer) ==
    LET rec == s.weatherLayers[timer.layer]
    IN IF rec.exists
       THEN SetVisibilityAll([s EXCEPT !.weatherLayers[timer.layer].visibility =
                                  timer.visibility],
                             rec.layers, timer.visibility)
       ELSE s

\* createTransitionLayer after its await, with the .then and .catch
\* callbacks handleZoomChange attaches to it: map.addSource throws when the
\* id is on the map (the .catch callback then sets a 100 ms timer for
\* processPrefetchQueue), otherwise the sublayers are added, recorded in
\* weatherLayers['transitions'], and the settle timer is set
ResumeTransition(s, task) ==
    LET fromSourceId == TransitionSourceId(task.layer, task.from)
        toSourceId == TransitionSourceId(task.layer, task.to)
        transitionId == TransitionId(task.layer, task.from, task.to)
        stops == OpacityStops(task.from, task.to)
        s0 == [s EXCEPT !.fetches = @ \ {t \in @ : t.gen = task.gen}]
        failed == [s0 EXCEPT !.timers100 = Append(@, ProcessTimer)]
    IN IF getSource(s0, fromSourceId) THEN failed
       ELSE IF getSource(s0, toSourceId)
            THEN addSource(failed, fromSourceId)
            ELSE LET s1 == addSource(addSource(s0, fromSourceId), toSourceId)
                     s2 == IF ValidStops(stops)
                           THEN addLayer(s1, transitionId \o "-from", fromSourceId, task.gen)
                           ELSE s1
                     s3 == IF ValidStops(stops)
                           THEN addLayer(s2, transitionId \o "-to", toSourceId, task.gen)
                           ELSE s2
                     old == s3.weatherLayers["transitions"]
                 IN [s3 EXCEPT
                       !.weatherLayers["transitions"] =
                           [exists |-> TRUE, visibility |-> "visible", zoomCategory |-> "",
                            layers |-> old.layers \o << transitionId \o "-from",
                                                        transitionId \o "-to" >>],
                       !.timers1000 = Append(@, task)]

\* the callback of the 1000 ms timer of handleZoomChange
SettleTransition(s, task) ==
    LET transitionId == TransitionId(task.layer, task.from, task.to)
        transitionLayers == << transitionId \o "-from", transitionId \o "-to" >>
        s1 == RemoveLayers(s, transitionLayers)
        s2 == [s1 EXCEPT !.weatherLayers["transitions"].layers =
                           FilterOut(@, Range(transitionLayers)),
                         !.uncommitted = @ \ {<< task.layer, task.to >>}]
    IN refreshLayer(s2, task.layer, task.to)

RECURSIVE StartTransitions(_, _, _, _)
\* activeLayers.forEach(layerId => { if tile-backed: createTransitionLayer(...) })
StartTransitions(s, keys, oldCategory, newCategory) ==
    IF keys = << >> THEN s
    ELSE LET layerId == Head(keys)
             s1 == IF s.activeWeatherLayers[layerId] /\ layerId \in TileBacked
                   THEN createTransitionLayer(s, layerId, oldCategory, newCategory)
                   ELSE s
         IN StartTransitions(s1, Tail(keys), oldCategory, newCategory)

RECURSIVE ResumeReady(_, _)
\* the microtasks of the macrotask: a transition both of whose metadata came
\* from tileCache resumes, in the order of the calls, before any timer or
\* network callback runs
ResumeReady(s, keys) ==
    IF keys = << >> THEN s
    ELSE LET ready == {t \in s.fetches :
                          t.layer = Head(keys) /\ ~t.waitFrom /\ ~t.waitTo}
             s1 == IF ready = {} THEN s ELSE ResumeTransition(s, CHOOSE t \in ready : TRUE)
         IN ResumeReady(s1, Tail(keys))

\* handleZoomChange without the comparison of the categories
handleZoomChangeAlways(s, newZoom) ==
    ResumeReady(StartTransitions([s EXCEPT !.currentZoomLevel = newZoom], s.activeKeys,
                                 getZoomCategory(s.currentZoomLevel),
                                 getZoomCategory(newZoom)),
                s.activeKeys)

handleZoomChange(s, newZoom) ==
    LET oldCategory == getZoomCategory(s.currentZoomLevel)
        newCategory == getZoomCategory(newZoom)
        s1 == [s EXCEPT !.currentZoomLevel = newZoom]
    IN IF oldCategory # newCategory
       THEN ResumeReady(StartTransitions(s1, s1.activeKeys, oldCategory, newCategory),
                        s1.activeKeys)
       ELSE s1

\* a response of /api/weather/tiles arrives for one of the two getTileMetadata
\* calls of a waiting createTransitionLayer: ok caches the metadata, a failure
\* or a non-2xx answer makes getTileMetadata return its hardcoded entry
getTileMetadata(s, task, end, ok) ==
    LET zoomCategory == IF end = "from" THEN task.from ELSE task.to
        task2 == IF end = "from" THEN [task EXCEPT !.waitFrom = FALSE]
                 ELSE [task EXCEPT !.waitTo = FALSE]
        s1 == [s EXCEPT !.fetches = (@ \ {task}) \cup {task2},
                        !.tileCache.metadata =
                            IF ok THEN @ \cup {<< task.layer, zoomCategory >>} ELSE @]
    IN IF ~task2.waitFrom /\ ~task2.waitTo THEN ResumeTransition(s1, task2) ELSE s1

----------------------------------------------------------------------------
(* The zoom debounce of setupZoomChangeHandling on the browser's clock.    *)
(* clock.now is the time in units of 100 ms and clock.due the time the     *)
(* pending debounce timer is set for; lastEvent, lastZoom, events and      *)
(* decisions describe the current burst of zoom-end events: the time and   *)
(* zoom of its last event, its length, and the handleZoomChange runs since *)
(* it began.                                                               *)

ClockStart == [now |-> 0, due |-> NoTimer, lastEvent |-> NoTimer, lastZoom |-> 0,
               events |-> 0, decisions |-> 0]

\* a zoomend handler that leaves a pending timer alone
keepDebounce(c) ==
    IF c.due # NoTimer THEN c ELSE [c EXCEPT !.due = c.now + DebounceDelay]

\* clearTimeout(this.zoomChangeDebounceTimer); setTimeout(..., 300)
restartDebounce(c) ==
    [c EXCEPT !.due = c.now + DebounceDelay]

\* a zoom-end event arrives: it continues the burst when it follows the last
\* event by less than 300 ms, and begins a burst otherwise
ZoomEndEvent(c, newZoom) ==
    LET continues == c.lastEvent # NoTimer /\ c.now - c.lastEvent < DebounceDelay
    IN [restartDebounce(c) EXCEPT
          !.lastEvent = c.now,
          !.lastZoom = newZoom,
          !.events = IF continues THEN @ + 1 ELSE 1,
          !.decisions = IF continues THEN @ ELSE 0]

\* the debounce timer's callback has run
DebounceRan(c) ==
    [c EXCEPT !.due = NoTimer, !.decisions = @ + 1]

----------------------------------------------------------------------------
(* The server's WeatherService and its NodeCache (stdTTL 1800 s).  The     *)
(* server's time is in seconds.  A cache key is the request kind with its  *)
(* parameters, as the template literal of the method spells it.            *)

\* the coordinates clients ask for
CoordChoices == {<< 10, 20 >>, << 10, 21 >>}
\* the temperatures the upstream API reports, in tenths of a degree
UpstreamTemps == {253}

\* stdTTL is the TTL of weatherCache.set(key, value); tile metadata is set
\* with a TTL of its own
TileTTL == 600

\* `current_weather_${lat}_${lon}`
CurrentWeatherKey(lat, lon) ==
    "current_weather_" \o ToString(lat) \o "_" \o ToString(lon)
\* `forecast_${lat}_${lon}`
ForecastKey(lat, lon) == "forecast_" \o ToString(lat) \o "_" \o ToString(lon)
HurricaneKey == "hurricane_data"
\* `wildfire_data_${days}`
WildfireKey(days) == "wildfire_data_" \o ToString(days)
DisasterKey == "natural_disaster_data"
\* `tiles_${layerType}_${zoomCategory}_${bounds ? JSON.stringify(bounds) : 'global'}`
\* for a request without bounds
TilesKey(layerType, zoomCategory) ==
    "tiles_" \o layerType \o "_" \o zoomCategory \o "_global"

\* the tile metadata clients ask the server for: layers of the catalog, and
\* a layer type the catalog does not have
TileRequests == {<< "temperature", "GLOBAL" >>, << "precipitation", "LOCAL" >>,
                 << "storm", "GLOBAL" >>}
\* the days clients ask wildfire data for (the default)
DayChoices == {1}

CurrentWeatherKeys == {CurrentWeatherKey(c[1], c[2]) : c \in CoordChoices}
\* the keys of tile metadata: the layers of the catalog, and two layer types
\* it does not have
TileKeys ==
    {TilesKey(l, c) : l \in TileBacked \cup {"storm", "hurricane"}, c \in Categories}
CacheKeys ==
    CurrentWeatherKeys \cup TileKeys
        \cup {ForecastKey(c[1], c[2]) : c \in CoordChoices}
        \cup {WildfireKey(d) : d \in DayChoices} \cup {HurricaneKey, DisasterKey}

\* a cache slot without an entry; `written` is the time of the set
NoEntry == [present |-> FALSE, expires |-> 0, written |-> 0, value |-> << >>]
\* what the last call that ended gave its caller: the value it returned or
\* the message of the error it threw, whether the value came from the cache,
\* and what the upstream API had answered ("none" when it was not asked)
NoReply == [key |-> "", value |-> << >>, cached |-> FALSE, error |-> "",
            upstream |-> "none"]

ServerStart ==
    [now |-> 0,
     cache |-> [k \in CacheKeys |-> NoEntry],
     inflight |-> {},
     requests |-> [k \in CacheKeys |-> 0],
     upstream |-> [k \in CacheKeys |-> 0],
     reply |-> NoReply]

\* weatherCache.get(key) is truthy: the entry is there and has not expired
\* (node-cache drops an entry once its expiry time is in the past)
CacheHas(sv, key) ==
    sv.cache[key].present /\ sv.now <= sv.cache[key].expires

\* weatherCache.get(key) of a key that CacheHas
CacheGet(sv, key) == sv.cache[key].value

\* weatherCache.set(key, value, ttl)
CacheSetFor(sv, key, value, ttl) ==
    [sv EXCEPT !.cache[key] = [present |-> TRUE, expires |-> sv.now + ttl,
                               written |-> sv.now, value |-> value]]

\* weatherCache.set(key, value) with the standard TTL
CacheSet(sv, key, value) == CacheSetFor(sv, key, value, StdTTL)

\* the body of a 200 answer of the OpenWeatherMap /weather endpoint, at the
\* server's time dt
OpenWeatherBody(lat, lon, temp, dt) ==
    [name |-> "Station", coord |-> [lat |-> lat, lon |-> lon],
     sys |-> [country |-> "XX", sunrise |-> dt - 60, sunset |-> dt + 60],
     weather |-> << [main |-> "Clear", description |-> "clear sky", icon |-> "01d"] >>,
     main |-> [temp |-> temp, feels_like |-> temp + 10, humidity |-> 60,
               pressure |-> 1015],
     wind |-> [speed |-> 5, deg |-> 90], clouds |-> [all |-> 20],
     visibility |-> 10000, dt |-> dt]
\* a 200 answer whose body is not a weather record
MalformedBody == [cod |-> 200]

\* reading data.sys.country, data.coord.lat, data.weather[0].main,
\* data.main.temp, data.wind.speed or data.clouds.all of a body without the
\* member throws a TypeError
OpenWeatherReadable(data) ==
    {"sys", "coord", "weather", "main", "wind", "clouds"} \subseteq DOMAIN data

\* normalizeOpenWeatherData with the timestamp left in seconds
normalizeOpenWeatherDataSeconds(data) ==
    [type |-> "current_weather",
     location |-> [name |-> data.name, country |-> data.sys.country,
                   lat |-> data.coord.lat, lon |-> data.coord.lon],
     weather |-> [main |-> data.weather[1].main,
                  description |-> data.weather[1].description,
                  icon |-> data.weather[1].icon,
                  temperature |-> data.main.temp,
                  feels_like |-> data.main.feels_like,
                  humidity |-> data.main.humidity,
                  pressure |-> data.main.pressure,
                  wind_speed |-> data.wind.speed,
                  wind_direction |-> data.wind.deg,
                  clouds |-> data.clouds.all,
                  visibility |-> data.visibility],
     timestamp |-> data.dt,
     sunrise |-> data.sys.sunrise * 1000,
     sunset |-> data.sys.sunset * 1000]

\* normalizeOpenWeatherData (data.weather[0] is the first element)
normalizeOpenWeatherData(data) ==
    [type |-> "current_weather",
     location |-> [name |-> data.name, country |-> data.sys.country,
                   lat |-> data.coord.lat, lon |-> data.coord.lon],
     weather |-> [main |-> data.weather[1].main,
                  description |-> data.weather[1].description,
                  icon |-> data.weather[1].icon,
                  temperature |-> data.main.temp,
                  feels_like |-> data.main.feels_like,
                  humidity |-> data.main.humidity,
                  pressure |-> data.main.pressure,
                  wind_speed |-> data.wind.speed,
                  wind_direction |-> data.wind.deg,
                  clouds |-> data.clouds.all,
                  visibility |-> data.visibility],
     timestamp |-> data.dt * 1000,
     sunrise |-> data.sys.sunrise * 1000,
     sunset |-> data.sys.sunset * 1000]

\* getFakeWeatherData at the server's time `now` (Date.now() is in ms)
getFakeWeatherData(lat, lon, now) ==
    [type |-> "current_weather",
     location |-> [name |-> "Test Location", country |-> "Test Country",
                   lat |-> lat, lon |-> lon],
     weather |-> [main |-> "Clear", description |-> "clear sky", icon |-> "01d",
                  temperature |-> 250, feels_like |-> 260, humidity |-> 60,
                  pressure |-> 1015, wind_speed |-> 5, wind_direction |-> 90,
                  clouds |-> 20, visibility |-> 10000, rain |-> [h1 |-> 0]],
     timestamp |-> now * 1000,
     sunrise |-> now * 1000 - 21600000,
     sunset |-> now * 1000 + 21600000]

\* an identifier for an upstream call in flight: the least one not in use
NextCall(sv) ==
    CHOOSE n \in 1..(Cardinality(sv.inflight) + 1) :
        /\ \A c \in sv.inflight : c.id # n
        /\ \A m \in 1..(n - 1) : \E c \in sv.inflight : c.id = m

\* a getter up to its await: a truthy cached value is returned, otherwise
\* the request to the upstream API is sent (axios.get)
ServeOrSend(sv, method, args, cacheKey) ==
    IF CacheHas(sv, cacheKey)
    THEN [sv EXCEPT !.requests[cacheKey] = @ + 1,
                    !.reply = [key |-> cacheKey, value |-> CacheGet(sv, cacheKey),
                               cached |-> TRUE, error |-> "", upstream |-> "none"]]
    ELSE [sv EXCEPT !.requests[cacheKey] = @ + 1,
                    !.inflight = @ \cup {[id |-> NextCall(sv), method |-> method,
                                          args |-> args, key |-> cacheKey]},
                    !.upstream[cacheKey] = @ + 1]

\* the try block of a getter after its await: the normalized data is cached
\* and returned
CacheAndReturn(sv, call, normalizedData, answer) ==
    [CacheSet(sv, call.key, normalizedData) EXCEPT
        !.inflight = @ \ {call},
        !.reply = [key |-> call.key, value |-> normalizedData, cached |-> FALSE,
                   error |-> "", upstream |-> answer]]

\* a getter that caches the body of the answer as it came
CacheBodyAndReturn(sv, call, data, answer) ==
    [CacheSet(sv, call.key, data) EXCEPT
        !.inflight = @ \ {call},
        !.reply = [key |-> call.key, value |-> data, cached |-> FALSE,
                   error |-> "", upstream |-> answer]]

\* a catch block that returns a value
CatchAndReturn(sv, call, value, answer) ==
    [sv EXCEPT !.inflight = @ \ {call},
               !.reply = [key |-> call.key, value |-> value, cached |-> FALSE,
                          error |-> "", upstream |-> answer]]

\* a catch block that throws new Error(message)
CatchAndThrow(sv, call, message, answer) ==
    [sv EXCEPT !.inflight = @ \ {call},
               !.reply = [key |-> call.key, value |-> << >>, cached |-> FALSE,
                          error |-> message, upstream |-> answer]]

\* what the upstream API did, as the reply records it
AnswerKind(response, readable) ==
    IF ~response.ok THEN "error" ELSE IF readable THEN "ok" ELSE "malformed"

getCurrentWeather(sv, lat, lon) ==
    ServeOrSend(sv, "getCurrentWeather", << lat, lon >>, CurrentWeatherKey(lat, lon))

\* getCurrentWeather whose catch block throws as the other getters' do
CurrentWeatherAnsweredThrows(sv, call, response) ==
    IF response.ok /\ OpenWeatherReadable(response.data)
    THEN CacheAndReturn(sv, call, normalizeOpenWeatherData(response.data), "ok")
    ELSE CatchAndThrow(sv, call, "Failed to fetch current weather data",
                       AnswerKind(response, FALSE))

\* getCurrentWeather that caches response.data
CurrentWeatherAnsweredRaw(sv, call, response) ==
    IF response.ok /\ OpenWeatherReadable(response.data)
    THEN CacheBodyAndReturn(sv, call, response.data, "ok")
    ELSE CatchAndReturn(sv, call,
                        getFakeWeatherData(call.args[1], call.args[2], sv.now),
                        AnswerKind(response, FALSE))

\* getCurrentWeather whose catch block caches the placeholder it returns
CurrentWeatherAnsweredCachesFake(sv, call, response) ==
    IF response.ok /\ OpenWeatherReadable(response.data)
    THEN CacheAndReturn(sv, call, normalizeOpenWeatherData(response.data), "ok")
    ELSE CacheAndReturn(sv, call,
                        getFakeWeatherData(call.args[1], call.args[2], sv.now),
                        AnswerKind(response, FALSE))

\* getCurrentWeather after its await: the answer is normalized, cached and
\* returned; when axios.get or the normalizer throws, the placeholder is
\* returned and nothing is cached
CurrentWeatherAnswered(sv, call, response) ==
    IF response.ok /\ OpenWeatherReadable(response.data)
    THEN CacheAndReturn(sv, call, normalizeOpenWeatherData(response.data), "ok")
    ELSE CatchAndReturn(sv, call,
                        getFakeWeatherData(call.args[1], call.args[2], sv.now),
                        AnswerKind(response, FALSE))

\* the body of a 200 answer of the OpenWeatherMap /forecast endpoint: one
\* forecast step
ForecastBody(lat, lon, temp, dt) ==
    [city |-> [name |-> "Station", country |-> "XX",
               coord |-> [lat |-> lat, lon |-> lon]],
     list |-> << [dt |-> dt,
                  main |-> [temp |-> temp, feels_like |-> temp + 10, humidity |-> 60,
                            pressure |-> 1015],
                  weather |-> << [main |-> "Clear", description |-> "clear sky",
                                  icon |-> "01d"] >>,
                  wind |-> [speed |-> 5, deg |-> 90], clouds |-> [all |-> 20],
                  pop |-> 0] >>]

\* reading data.city.name or data.list.map of a body without the member throws
ForecastReadable(data) == {"city", "list"} \subseteq DOMAIN data

normalizeForecastData(data) ==
    [type |-> "forecast",
     location |-> [name |-> data.city.name, country |-> data.city.country,
                   lat |-> data.city.coord.lat, lon |-> data.city.coord.lon],
     forecast |-> [i \in DOMAIN data.list |->
                     [timestamp |-> data.list[i].dt * 1000,
                      temperature |-> data.list[i].main.temp,
                      feels_like |-> data.list[i].main.feels_like,
                      humidity |-> data.list[i].main.humidity,
                      pressure |-> data.list[i].main.pressure,
                      weather |-> [main |-> data.list[i].weather[1].main,
                                   description |-> data.list[i].weather[1].description,
                                   icon |-> data.list[i].weather[1].icon],
                      wind_speed |-> data.list[i].wind.speed,
                      wind_direction |-> data.list[i].wind.deg,
                      clouds |-> data.list[i].clouds.all,
                      pop |-> data.list[i].pop]]]

\* the body of NOAA's CurrentStorms.json with one storm; the times of track
\* and forecast points are epoch milliseconds, which new Date(t).getTime()
\* gives back
StormsBody ==
    [activeStorms |-> << [id |-> "al012024", name |-> "Alberto",
                          classification |-> "TS", lat |-> 250, lon |-> -900,
                          movement |-> [direction |-> 270, speed |-> 10],
                          pressure |-> 1000, windSpeed |-> 45,
                          track |-> << >>, forecast |-> << >>] >>]

\* normalizeHurricaneData: a body without activeStorms gives the empty list
normalizeHurricaneData(data) ==
    IF "activeStorms" \notin DOMAIN data THEN << >>
    ELSE [i \in DOMAIN data.activeStorms |->
            LET storm == data.activeStorms[i]
            IN [type |-> "hurricane", id |-> storm.id, name |-> storm.name,
                category |-> storm.classification,
                location |-> [lat |-> storm.lat, lon |-> storm.lon],
                movement |-> [direction |-> storm.movement.direction,
                              speed |-> storm.movement.speed],
                pressure |-> storm.pressure, wind_speed |-> storm.windSpeed,
                path |-> [j \in DOMAIN storm.track |->
                            [lat |-> storm.track[j].lat, lon |-> storm.track[j].lon,
                             timestamp |-> storm.track[j].time,
                             wind_speed |-> storm.track[j].windSpeed]],
                forecast |-> [j \in DOMAIN storm.forecast |->
                                [lat |-> storm.forecast[j].lat,
                                 lon |-> storm.forecast[j].lon,
                                 timestamp |-> storm.forecast[j].time,
                                 wind_speed |-> storm.forecast[j].windSpeed,
                                 category |-> storm.forecast[j].category]]]]

\* the CSV text of NASA FIRMS as its lines and their cells (what split('\n')
\* and split(',') make of it), numbers in tenths
FiresBody ==
    [lines |-> << << "latitude", "longitude", "bright_ti4", "acq_date", "acq_time",
                     "confidence" >>,
                  << 345, -1180, 3300, "2024-06-01", "0930", "n" >> >>]

\* csvData.split of a body that is not text throws
WildfireReadable(data) == "lines" \in DOMAIN data

\* headers.indexOf(name), from 1
IndexOf(headers, name) == CHOOSE i \in DOMAIN headers : headers[i] = name

\* normalizeWildfireData without the id (a random string) and the timestamp
\* (the date and time parsed by new Date)
normalizeWildfireData(csvData) ==
    LET headers == csvData.lines[1]
    IN [i \in 1..(Len(csvData.lines) - 1) |->
          LET values == csvData.lines[i + 1]
          IN [type |-> "wildfire",
              location |-> [lat |-> values[IndexOf(headers, "latitude")],
                            lon |-> values[IndexOf(headers, "longitude")]],
              date |-> values[IndexOf(headers, "acq_date")],
              time |-> values[IndexOf(headers, "acq_time")],
              brightness |-> values[IndexOf(headers, "bright_ti4")],
              confidence |-> values[IndexOf(headers, "confidence")]]]

\* the body of the EONET events feed with one event
EventsBody ==
    [events |-> << [id |-> "EONET_1", title |-> "Flood", description |-> "",
                    categories |-> << [title |-> "Floods"] >>,
                    geometry |-> << [date |-> "1970-01-01T00:00:01Z",
                                     coordinates |-> << -900, 250 >>] >>,
                    sources |-> << [id |-> "src", url |-> "https://example.org"] >>] >>]

\* a member whose value is null is an empty sequence, one with a value the
\* sequence of that value
Null == << >>
Some(value) == << value >>

\* new Date(date).getTime() for the dates of the modelled feeds
DateGetTime(date) ==
    CASE date = "1970-01-01T00:00:01Z" -> 1000
      [] date = "1970-01-02T00:00:00Z" -> 86400000

\* event.geometry && event.geometry.length > 0 ? event.geometry[0] : null
FirstGeometry(event) ==
    IF "geometry" \in DOMAIN event /\ Len(event.geometry) > 0
    THEN Some(event.geometry[1])
    ELSE Null

\* the record normalizeDisasterData makes of an event and its first geometry
DisasterRecord(event, geometry) ==
    [type |-> "natural_disaster", id |-> event.id, title |-> event.title,
     description |-> IF "description" \in DOMAIN event THEN event.description ELSE "",
     category |-> event.categories[1].title,
     location |-> IF geometry # Null
                  THEN Some([lat |-> geometry[1].coordinates[2],
                             lon |-> geometry[1].coordinates[1]])
                  ELSE Null,
     timestamp |-> IF geometry # Null THEN Some(DateGetTime(geometry[1].date))
                   ELSE Null,
     sources |-> [j \in DOMAIN event.sources |->
                    [id |-> event.sources[j].id, url |-> event.sources[j].url]]]

\* normalizeDisasterData that reads the coordinates as [lat, lon]
normalizeDisasterDataNoSwap(data) ==
    IF "events" \notin DOMAIN data THEN << >>
    ELSE [i \in DOMAIN data.events |->
            [DisasterRecord(data.events[i], FirstGeometry(data.events[i])) EXCEPT
                !.location = IF @ = Null THEN Null
                             ELSE Some([lat |-> @[1].lon, lon |-> @[1].lat])]]

\* normalizeDisasterData: a body without events gives the empty list; each
\* event gives one record, made of its first geometry (EONET coordinates are
\* [lon, lat]) or with location and timestamp null
normalizeDisasterData(data) ==
    IF "events" \notin DOMAIN data THEN << >>
    ELSE [i \in DOMAIN data.events |->
            DisasterRecord(data.events[i], FirstGeometry(data.events[i]))]

getWeatherForecast(sv, lat, lon) ==
    ServeOrSend(sv, "getWeatherForecast", << lat, lon >>, ForecastKey(lat, lon))
getHurricaneData(sv) ==
    ServeOrSend(sv, "getHurricaneData", << >>, HurricaneKey)
getWildfireData(sv, days) ==
    ServeOrSend(sv, "getWildfireData", << days >>, WildfireKey(days))
getNaturalDisasterData(sv) ==
    ServeOrSend(sv, "getNaturalDisasterData", << >>, DisasterKey)

\* the message of the Error the catch block of a getter throws
FailedMessage(method) ==
    CASE method = "getWeatherForecast" -> "Failed to fetch weather forecast data"
      [] method = "getHurricaneData" -> "Failed to fetch hurricane data"
      [] method = "getWildfireData" -> "Failed to fetch wildfire data"
      [] method = "getNaturalDisasterData" -> "Failed to fetch natural disaster data"

\* whether the normalizer of the getter runs through on the body
FeedReadable(method, data) ==
    CASE method = "getWeatherForecast" -> ForecastReadable(data)
      [] method = "getWildfireData" -> WildfireReadable(data)
      [] OTHER -> TRUE

\* the normalizer the getter applies to response.data
FeedNormalized(method, data) ==
    CASE method = "getWeatherForecast" -> normalizeForecastData(data)
      [] method = "getHurricaneData" -> normalizeHurricaneData(data)
      [] method = "getWildfireData" -> normalizeWildfireData(data)
      [] method = "getNaturalDisasterData" -> normalizeDisasterData(data)

\* a getter whose catch block caches and returns the empty list
FeedAnsweredAbsorbs(sv, call, response) ==
    IF response.ok /\ FeedReadable(call.method, response.data)
    THEN CacheAndReturn(sv, call, FeedNormalized(call.method, response.data),
                        AnswerKind(response, response.data # MalformedBody))
    ELSE CacheAndReturn(sv, call, << >>, AnswerKind(response, FALSE))

\* getWeatherForecast, getHurricaneData, getWildfireData and
\* getNaturalDisasterData after the await: the answer is normalized, cached
\* and returned; when axios.get or the normalizer throws, the catch block
\* throws the getter's own Error
FeedAnswered(sv, call, response) ==
    IF response.ok /\ FeedReadable(call.method, response.data)
    THEN CacheAndReturn(sv, call, FeedNormalized(call.method, response.data),
                        AnswerKind(response, response.data # MalformedBody))
    ELSE CatchAndThrow(sv, call, FailedMessage(call.method),
                       AnswerKind(response, FALSE))

\* the members of `resolutions` and `layerConfigs` in getWeatherTileMetadata
resolutions ==
    [c \in Categories |->
        CASE c = "GLOBAL" -> [tileSize |-> 256, maxZoom |-> 3, minZoom |-> 0,
                              resolution |-> "low"]
          [] c = "REGIONAL" -> [tileSize |-> 256, maxZoom |-> 8, minZoom |-> 3,
                                resolution |-> "medium"]
          [] c = "LOCAL" -> [tileSize |-> 256, maxZoom |-> 22, minZoom |-> 8,
                             resolution |-> "high"]]

\* the two path segments that tell the tile URLs of a layer apart
TileCodes ==
    [l \in {"temperature", "precipitation", "wind", "cloud"} |->
        CASE l = "temperature" -> [classic |-> "temp_new", v2 |-> "TA2"]
          [] l = "precipitation" -> [classic |-> "precipitation_new", v2 |-> "PAC0"]
          [] l = "wind" -> [classic |-> "wind_new", v2 |-> "WND"]
          [] l = "cloud" -> [classic |-> "clouds_new", v2 |-> "CL"]]

\* the URL templates of the catalog, for an API key
TileUrl(layerType, zoomCategory, apiKey) ==
    CASE zoomCategory = "GLOBAL" ->
           "https://tile.openweathermap.org/map/" \o TileCodes[layerType].classic
               \o "/{z}/{x}/{y}.png?appid=" \o apiKey
      [] zoomCategory = "REGIONAL" ->
           "https://maps.openweathermap.org/maps/2.0/weather/" \o TileCodes[layerType].v2
               \o "/{z}/{x}/{y}?appid=" \o apiKey \o "&fill_bound=true"
      [] zoomCategory = "LOCAL" ->
           "https://maps.openweathermap.org/maps/2.0/weather/" \o TileCodes[layerType].v2
               \o "/{z}/{x}/{y}?appid=" \o apiKey \o "&fill_bound=true&opacity=0.9"

\* process.env.OPENWEATHERMAP_API_KEY
ServerApiKey == "OPENWEATHERMAP_API_KEY"

\* the metadata response for a request without bounds
TileMetadata(layerType, zoomCategory, now) ==
    [url |-> TileUrl(layerType, zoomCategory, ServerApiKey),
     tileSize |-> resolutions[zoomCategory].tileSize,
     minZoom |-> resolutions[zoomCategory].minZoom,
     maxZoom |-> resolutions[zoomCategory].maxZoom,
     resolution |-> resolutions[zoomCategory].resolution,
     attribution |-> "(c) OpenWeatherMap",
     hasTileCoverage |-> FALSE,
     timestamp |-> now * 1000]

\* a call that ends without an upstream request
Returns(sv, cacheKey, value, cached) ==
    [sv EXCEPT !.requests[cacheKey] = @ + 1,
               !.reply = [key |-> cacheKey, value |-> value, cached |-> cached,
                          error |-> "", upstream |-> "none"]]
Throws(sv, cacheKey, message) ==
    [sv EXCEPT !.requests[cacheKey] = @ + 1,
               !.reply = [key |-> cacheKey, value |-> << >>, cached |-> FALSE,
                          error |-> message, upstream |-> "none"]]

\* getWeatherTileMetadata that caches with the standard TTL
getWeatherTileMetadataStdTTL(sv, layerType, zoomCategory) ==
    IF CacheHas(sv, TilesKey(layerType, zoomCategory))
    THEN Returns(sv, TilesKey(layerType, zoomCategory),
                 CacheGet(sv, TilesKey(layerType, zoomCategory)), TRUE)
    ELSE IF layerType \notin DOMAIN TileCodes \/ zoomCategory \notin Categories
    THEN Throws(sv, TilesKey(layerType, zoomCategory),
                "Failed to generate tile metadata for " \o layerType)
    ELSE Returns(CacheSet(sv, TilesKey(layerType, zoomCategory),
                          TileMetadata(layerType, zoomCategory, sv.now)),
                 TilesKey(layerType, zoomCategory),
                 TileMetadata(layerType, zoomCategory, sv.now), FALSE)

\* getWeatherTileMetadata({ layerType, zoomCategory }) with both parameters
\* given: it has no await, and runs to its end in one step
getWeatherTileMetadata(sv, layerType, zoomCategory) ==
    IF CacheHas(sv, TilesKey(layerType, zoomCategory))
    THEN Returns(sv, TilesKey(layerType, zoomCategory),
                 CacheGet(sv, TilesKey(layerType, zoomCategory)), TRUE)
    ELSE IF layerType \notin DOMAIN TileCodes \/ zoomCategory \notin Categories
    THEN Throws(sv, TilesKey(layerType, zoomCategory),
                "Failed to generate tile metadata for " \o layerType)
    ELSE Returns(CacheSetFor(sv, TilesKey(layerType, zoomCategory),
                             TileMetadata(layerType, zoomCategory, sv.now), TileTTL),
                 TilesKey(layerType, zoomCategory),
                 TileMetadata(layerType, zoomCategory, sv.now), FALSE)

----------------------------------------------------------------------------
(* The state as one record, and back.  Five fields record what the handler *)
(* did: `built` that it reached fetchLayerData, the entry of every builder; *)
(* `queued` that it called queueTilePrefetch; `popped` that it took a task  *)
(* off the prefetch queue; `removedAbsent` that it called removeLayer /     *)
(* removeSource for an id not on the map; `skipped` that a getLayer test    *)
(* kept it from doing so.                                                   *)

Cur ==
    [isInitialized |-> isInitialized, activeWeatherLayers |-> activeWeatherLayers,
     activeKeys |-> activeKeys, weatherLayers |-> weatherLayers,
     currentZoomLevel |-> currentZoomLevel, tileCache |-> tileCache,
     currentViewport |-> currentViewport, prefetchQueue |-> prefetchQueue,
     prefetchInProgress |-> prefetchInProgress, mapLayers |-> mapLayers,
     mapSources |-> mapSources, mapZoom |-> mapZoom, mapCenter |-> mapCenter,
     fetches |-> fetches, eventFetches |-> eventFetches, timers100 |-> timers100,
     timers200 |-> timers200, timers1000 |-> timers1000,
     uncommitted |-> uncommitted, built |-> FALSE, queued |-> FALSE,
     removedAbsent |-> FALSE, skipped |-> FALSE, popped |-> FALSE,
     fault |-> NoFault, thrown |-> FALSE, fallbackThrown |-> FALSE]

Becomes(s) ==
    /\ isInitialized' = s.isInitialized
    /\ activeWeatherLayers' = s.activeWeatherLayers
    /\ activeKeys' = s.activeKeys
    /\ weatherLayers' = s.weatherLayers
    /\ currentZoomLevel' = s.currentZoomLevel
    /\ tileCache' = s.tileCache
    /\ currentViewport' = s.currentViewport
    /\ prefetchQueue' = s.prefetchQueue
    /\ prefetchInProgress' = s.prefetchInProgress
    /\ mapLayers' = s.mapLayers
    /\ mapSources' = s.mapSources
    /\ mapZoom' = s.mapZoom
    /\ mapCenter' = s.mapCenter
    /\ fetches' = s.fetches
    /\ eventFetches' = s.eventFetches
    /\ timers100' = s.timers100
    /\ timers200' = s.timers200
    /\ timers1000' = s.timers1000
    /\ uncommitted' = s.uncommitted

\* what the handler named `name` found and did: the visibility recorded for
\* the layer before it ran ("absent" without a record), whether it ran a builder
Op(name, layerId, s) ==
    [op |-> name, layer |-> layerId,
     before |-> IF layerId \in LayerIds
                THEN IF weatherLayers[layerId].exists
                     THEN weatherLayers[layerId].visibility ELSE "absent"
                ELSE "",
     built |-> s.built, queued |-> s.queued, removedAbsent |-> s.removedAbsent,
     skipped |-> s.skipped, popped |-> s.popped]

\* the handler runs and is recorded
Runs(name, layerId, s) ==
    /\ Becomes(s)
    /\ lastOp' = Op(name, layerId, s)

NoProbe == [zoom |-> 0, from |-> "", to |-> "", fromOpacity |-> 0, toOpacity |-> 0,
            evaluated |-> FALSE]

----------------------------------------------------------------------------
(* Initial state: the static field initialisers of the class, and the map  *)
(* where initCityLabels' flyTo leaves it                                    *)

InitProgram ==
    /\ isInitialized = FALSE
    /\ activeWeatherLayers = [l \in LayerIds |-> FALSE]
    /\ activeKeys = << >>
    /\ weatherLayers = [r \in RecordIds |-> NoRecord]
    /\ currentZoomLevel = 0
    /\ zoomChangeDebounceTimer = NoTimer
    /\ tileCache = [prefetched |-> {}, metadata |-> {}]
    /\ currentViewport = [hasBounds |-> FALSE, center |-> Origin, zoom |-> 0]
    /\ prefetchQueue = << >>
    /\ prefetchInProgress = FALSE
    /\ mapLayers = << >>
    /\ mapSources = {}
    /\ mapZoom = InitialZoom
    /\ mapCenter = Origin
    /\ fetches = {}
    /\ eventFetches = [c \in Categories |-> 0]
    /\ timers100 = << >>
    /\ timers200 = << >>
    /\ timers1000 = << >>
    /\ uncommitted = {}
    /\ userOps = 0
    /\ lastOp = [op |-> "none", layer |-> "", before |-> "", built |-> FALSE,
                 queued |-> FALSE, removedAbsent |-> FALSE, skipped |-> FALSE,
                 popped |-> FALSE]
    /\ clock = ClockStart
    /\ server = ServerStart

Init ==
    /\ InitProgram
    /\ probe = NoProbe

----------------------------------------------------------------------------
(* Actions: one per handler *)

\* initWeatherControls once the map is loaded: setupZoomChangeHandling,
\* initCityLabels, the two flags cleared, initTileManager
initWeatherControls(s) ==
    LET s1 == [s EXCEPT !.isInitialized = TRUE, !.currentZoomLevel = s.mapZoom]
        s2 == initCityLabels(s1)
        s3 == SetActive(SetActive(s2, "temperature", FALSE), "cities", FALSE)
    IN updateViewport(s3)

InitWeatherControls ==
    /\ ~isInitialized
    /\ Runs("initWeatherControls", "", initWeatherControls(Cur))
    /\ UNCHANGED << zoomChangeDebounceTimer, userOps, probe, clock, server >>

\* the user acts once more: the session is initialised and, with at most
\* `budget` user events, not over
UserActs(budget) ==
    /\ isInitialized
    /\ userOps < budget
    /\ userOps' = userOps + 1
    /\ UNCHANGED << probe, clock, server >>

\* a click on the toggle of a layer
Toggles(layerId, budget) ==
    /\ UserActs(budget)
    /\ Runs("toggleLayer", layerId, toggleLayer(Cur, layerId))
    /\ UNCHANGED zoomChangeDebounceTimer

ToggleLayer(layerId) == Toggles(layerId, MaxUserOps)

ShowLayer(layerId) ==
    /\ UserActs(MaxUserOps)
    /\ Runs("showLayer", layerId, showLayer(Cur, layerId))
    /\ UNCHANGED zoomChangeDebounceTimer

HideLayer(layerId) ==
    /\ UserActs(MaxUserOps)
    /\ Runs("hideLayer", layerId, hideLayer(Cur, layerId))
    /\ UNCHANGED zoomChangeDebounceTimer

\* the map ends a zoom: the zoomend handler restarts the debounce timer,
\* then the moveend handler runs updateViewport
Zooms(newZoom, budget) ==
    /\ UserActs(budget)
    /\ newZoom # mapZoom
    /\ zoomChangeDebounceTimer' = newZoom
    /\ Runs("zoomend", "", updateViewport([Cur EXCEPT !.mapZoom = newZoom]))

ZoomEnd(newZoom) == Zooms(newZoom, MaxUserOps)

\* the 300 ms debounce timer fires
DebounceFire ==
    /\ zoomChangeDebounceTimer # NoTimer
    /\ Runs("handleZoomChange", "", handleZoomChange(Cur, zoomChangeDebounceTimer))
    /\ zoomChangeDebounceTimer' = NoTimer
    /\ UNCHANGED << userOps, probe, clock, server >>

MetadataFetched(task, end, ok) ==
    /\ task \in fetches
    /\ IF end = "from" THEN task.waitFrom ELSE task.waitTo
    /\ Runs("getTileMetadata", task.layer, getTileMetadata(Cur, task, end, ok))
    /\ UNCHANGED << zoomChangeDebounceTimer, userOps, probe, clock, server >>

\* the hurricane fetch settles: both the .then and the .catch callback of
\* fetchLayerData call createHurricaneLayer
EventFetched(zoomCategory) ==
    /\ eventFetches[zoomCategory] > 0
    /\ Runs("createHurricaneLayer", "hurricane",
            createHurricaneLayer([Cur EXCEPT !.eventFetches[zoomCategory] = @ - 1],
                                 zoomCategory))
    /\ UNCHANGED << zoomChangeDebounceTimer, userOps, probe, clock, server >>

\* the oldest 100 ms timer fires: the pacing timer of the prefetch consumer
\* (or the one the .catch of handleZoomChange sets), or refreshLayer's
Timer100Fire ==
    /\ timers100 # << >>
    /\ LET timer == Head(timers100)
           s == [Cur EXCEPT !.timers100 = Tail(timers100)]
       IN IF timer.kind = "process"
          THEN Runs("processPrefetchQueue", "", processPrefetchQueue(s))
          ELSE Runs("restoreVisibility", timer.layer, RestoreVisibility(s, timer))
    /\ UNCHANGED << zoomChangeDebounceTimer, userOps, probe, clock, server >>

\* the simulated network delay of prefetchTiles ends: the cache entry is
\* written, the promise resolves and processPrefetchQueue's .then callback
\* sets the pacing timer
Timer200Fire ==
    /\ timers200 # << >>
    /\ LET item == Head(timers200)
       IN Runs("prefetchTiles", item.layerId,
               TaskSettled([Cur EXCEPT !.timers200 = Tail(timers200),
                                       !.tileCache.prefetched = @ \cup {item}],
                           item))
    /\ UNCHANGED << zoomChangeDebounceTimer, userOps, probe, clock, server >>

\* the oldest settle timer fires
Timer1000Fire ==
    /\ timers1000 # << >>
    /\ Runs("settle", Head(timers1000).layer,
            SettleTransition([Cur EXCEPT !.timers1000 = Tail(timers1000)],
                             Head(timers1000)))
    /\ UNCHANGED << zoomChangeDebounceTimer, userOps, probe, clock, server >>

Next ==
    \/ InitWeatherControls
    \/ \E layerId \in LayerIds : ToggleLayer(layerId)
    \/ \E layerId \in LayerIds : ShowLayer(layerId)
    \/ \E layerId \in LayerIds : HideLayer(layerId)
    \/ \E newZoom \in ZoomChoices : ZoomEnd(newZoom)
    \/ DebounceFire
    \/ \E task \in fetches, end \in {"from", "to"}, ok \in TileServiceAnswers :
          MetadataFetched(task, end, ok)
    \/ \E zoomCategory \in Categories : EventFetched(zoomCategory)
    \/ Timer100Fire
    \/ Timer200Fire
    \/ Timer1000Fire

Spec == Init /\ [][Next]_vars

\* a zoom session: the user toggles the tile-backed layers and zooms across
\* the category boundary
ToggleTileLayer(layerId) == Toggles(layerId, MaxZoomOps)

ZoomAgain(newZoom) == Zooms(newZoom, MaxZoomOps)

NextZoom ==
    \/ InitWeatherControls
    \/ \E layerId \in LayerIds \cap TileBacked : ToggleTileLayer(layerId)
    \/ \E newZoom \in ZoomChoices : ZoomAgain(newZoom)
    \/ DebounceFire
    \/ \E task \in fetches, end \in {"from", "to"}, ok \in TileServiceAnswers :
          MetadataFetched(task, end, ok)
    \/ Timer100Fire
    \/ Timer200Fire
    \/ Timer1000Fire

SpecZoom == Init /\ [][NextZoom]_vars

\* the sessions of Spec with the timers of the browser: a timer that is set
\* fires
SpecFair == Spec /\ WF_vars(Timer100Fire) /\ WF_vars(Timer200Fire)

----------------------------------------------------------------------------
(* The viewport tracker: the user pans and zooms the map within the GLOBAL *)
(* category by steps around the thresholds of shouldPrefetchNewTiles, and  *)
(* toggles the precipitation layer.                                        *)

\* the positions the map is moved to: up to 0.2 degrees east and north
Offsets == 0..CenterDelta
MoveCenters == {[lng |-> Origin.lng + dx, lat |-> Origin.lat + dy] :
                    dx \in Offsets, dy \in Offsets}
\* the zooms the map is moved to: 0.5 and 0.6 levels in from the initial one
MoveZooms == {InitialZoom, InitialZoom + ZoomDelta, InitialZoom + ZoomDelta + 1}

\* the map ends a move: when the zoom changed the zoomend handler restarts
\* the debounce timer; the moveend handler runs updateViewport
MoveEnd(center, zoom) ==
    /\ UserActs(MaxMoves)
    /\ << center, zoom >> # << mapCenter, mapZoom >>
    /\ zoomChangeDebounceTimer' =
          IF zoom # mapZoom THEN zoom ELSE zoomChangeDebounceTimer
    /\ Runs("moveend", "",
            updateViewport([Cur EXCEPT !.mapCenter = center, !.mapZoom = zoom]))

TogglePrecipitation == Toggles("precipitation", MaxMoves)

NextViewport ==
    \/ InitWeatherControls
    \/ TogglePrecipitation
    \/ \E center \in MoveCenters, zoom \in MoveZooms : MoveEnd(center, zoom)
    \/ DebounceFire
    \/ Timer100Fire
    \/ Timer200Fire

SpecViewport == Init /\ [][NextViewport]_vars

----------------------------------------------------------------------------
(* The zoom debounce on the clock: zoom-end events arrive at any time, the *)
(* debounce timer fires when it is due, and a timer that is due runs       *)
(* before the clock advances or another event is handled.                  *)

ZoomEndAt(newZoom) ==
    /\ isInitialized
    /\ userOps < MaxBurstEvents
    /\ clock.due # clock.now
    /\ newZoom # mapZoom
    /\ userOps' = userOps + 1
    /\ zoomChangeDebounceTimer' = newZoom
    /\ clock' = ZoomEndEvent(clock, newZoom)
    /\ Runs("zoomend", "", updateViewport([Cur EXCEPT !.mapZoom = newZoom]))
    /\ UNCHANGED << probe, server >>

DebounceFiresAt ==
    /\ zoomChangeDebounceTimer # NoTimer
    /\ clock.due = clock.now
    /\ Runs("handleZoomChange", "", handleZoomChange(Cur, zoomChangeDebounceTimer))
    /\ zoomChangeDebounceTimer' = NoTimer
    /\ clock' = DebounceRan(clock)
    /\ UNCHANGED << userOps, probe, server >>

\* 100 ms pass
Tick ==
    /\ clock.now < MaxClock
    /\ clock.due # clock.now
    /\ clock' = [clock EXCEPT !.now = @ + 1]
    /\ UNCHANGED << isInitialized, activeWeatherLayers, activeKeys, weatherLayers,
                    currentZoomLevel, zoomChangeDebounceTimer, tileCache,
                    currentViewport, prefetchQueue, prefetchInProgress, mapLayers,
                    mapSources, mapZoom, mapCenter, fetches, eventFetches, timers100,
                    timers200, timers1000, uncommitted, userOps, lastOp, probe,
                    server >>

\* the zooms of a burst: the wheel moves the map in steps across the
\* GLOBAL / REGIONAL boundary
BurstZooms == {InitialZoom, 25, 35, 50}

NextDebounce ==
    \/ InitWeatherControls
    \/ \E newZoom \in BurstZooms : ZoomEndAt(newZoom)
    \/ DebounceFiresAt
    \/ Tick

SpecDebounce == Init /\ [][NextDebounce]_vars

----------------------------------------------------------------------------
(* The server: clients call getCurrentWeather at any time, the upstream    *)
(* API answers a call in flight or fails, and time passes.                 *)

\* the server's clock advances by half a tile TTL, beyond the standard TTL
ClockStep == TileTTL \div 2
MaxServerTime == StdTTL + TileTTL

RECURSIVE Sum(_, _)
Sum(f, keys) ==
    IF keys = {} THEN 0
    ELSE LET k == CHOOSE x \in keys : TRUE IN f[k] + Sum(f, keys \ {k})

ClientUnchanged ==
    UNCHANGED << isInitialized, activeWeatherLayers, activeKeys, weatherLayers,
                 currentZoomLevel, zoomChangeDebounceTimer, tileCache,
                 currentViewport, prefetchQueue, prefetchInProgress, mapLayers,
                 mapSources, mapZoom, mapCenter, fetches, eventFetches, timers100,
                 timers200, timers1000, uncommitted, userOps, lastOp, probe, clock >>

\* a client may call once more
MayRequest == Sum(server.requests, CacheKeys) < MaxRequests

GetCurrentWeather(lat, lon) ==
    /\ MayRequest
    /\ server' = getCurrentWeather(server, lat, lon)
    /\ ClientUnchanged

GetWeatherTileMetadata(layerType, zoomCategory) ==
    /\ MayRequest
    /\ server' = getWeatherTileMetadata(server, layerType, zoomCategory)
    /\ ClientUnchanged

GetWeatherForecast(lat, lon) ==
    /\ MayRequest
    /\ server' = getWeatherForecast(server, lat, lon)
    /\ ClientUnchanged

GetHurricaneData ==
    /\ MayRequest
    /\ server' = getHurricaneData(server)
    /\ ClientUnchanged

GetWildfireData(days) ==
    /\ MayRequest
    /\ server' = getWildfireData(server, days)
    /\ ClientUnchanged

GetNaturalDisasterData ==
    /\ MayRequest
    /\ server' = getNaturalDisasterData(server)
    /\ ClientUnchanged

\* what axios.get can settle with for a call: the body the API answers the
\* request with, a 200 answer with another body, or a rejection (no answer,
\* or a status outside 2xx)
Responses(call) ==
    {[ok |-> FALSE, data |-> MalformedBody], [ok |-> TRUE, data |-> MalformedBody]}
        \cup {[ok |-> TRUE, data |-> body] : body \in
                CASE call.method = "getCurrentWeather" ->
                       {OpenWeatherBody(call.args[1], call.args[2], t, server.now) :
                            t \in UpstreamTemps}
                  [] call.method = "getWeatherForecast" ->
                       {ForecastBody(call.args[1], call.args[2], t, server.now) :
                            t \in UpstreamTemps}
                  [] call.method = "getHurricaneData" -> {StormsBody}
                  [] call.method = "getWildfireData" -> {FiresBody}
                  [] call.method = "getNaturalDisasterData" -> {EventsBody}}

UpstreamAnswers(call, response) ==
    /\ call \in server.inflight
    /\ server' = IF call.method = "getCurrentWeather"
                 THEN CurrentWeatherAnswered(server, call, response)
                 ELSE FeedAnswered(server, call, response)
    /\ ClientUnchanged

ServerTick ==
    /\ server.now < MaxServerTime
    /\ server' = [server EXCEPT !.now = @ + ClockStep]
    /\ ClientUnchanged

NextServer ==
    \/ \E c \in CoordChoices : GetCurrentWeather(c[1], c[2])
    \/ \E r \in TileRequests : GetWeatherTileMetadata(r[1], r[2])
    \/ \E call \in server.inflight : \E response \in Responses(call) :
          UpstreamAnswers(call, response)
    \/ ServerTick

SpecServer == Init /\ [][NextServer]_vars

\* the feeds: forecast, hurricanes, wildfires, natural disasters
NextFeeds ==
    \/ \E c \in CoordChoices : GetWeatherForecast(c[1], c[2])
    \/ GetHurricaneData
    \/ \E d \in DayChoices : GetWildfireData(d)
    \/ GetNaturalDisasterData
    \/ \E call \in server.inflight : \E response \in Responses(call) :
          UpstreamAnswers(call, response)
    \/ ServerTick

SpecFeeds == Init /\ [][NextFeeds]_vars

----------------------------------------------------------------------------
(* The opacity expressions of createTransitionLayer, evaluated as the map  *)
(* evaluates them: a zoom and a pair of categories are drawn, and the two  *)
(* expressions of a layer pair the map accepted are evaluated at the zoom. *)

\* the zooms the map can take, in tenths
ZoomSamples == 0..zoomLevels["LOCAL"].max

InitOpacity ==
    /\ InitProgram
    /\ probe \in [zoom : ZoomSamples, from : Categories, to : Categories,
                  fromOpacity : {0}, toOpacity : {0}, evaluated : {FALSE}]

EvaluateOpacity ==
    /\ ~probe.evaluated
    /\ probe.from # probe.to
    /\ ValidStops(OpacityStops(probe.from, probe.to))
    /\ probe' = [probe EXCEPT
                   !.fromOpacity = fromLayerOpacity(probe.zoom, probe.from, probe.to),
                   !.toOpacity = toLayerOpacity(probe.zoom, probe.from, probe.to),
                   !.evaluated = TRUE]
    /\ UNCHANGED << isInitialized, activeWeatherLayers, activeKeys, weatherLayers,
                    currentZoomLevel, zoomChangeDebounceTimer, tileCache,
                    currentViewport, prefetchQueue, prefetchInProgress, mapLayers,
                    mapSources, mapZoom, mapCenter, fetches, eventFetches, timers100,
                    timers200, timers1000, uncommitted, userOps, lastOp, clock,
                    server >>

NextOpacity == EvaluateOpacity

SpecOpacity == InitOpacity /\ [][NextOpacity]_vars

----------------------------------------------------------------------------
(* getZoomCategory as a function of the zoom: a pair of zooms is drawn from  *)
(* the range of the map and a margin on either side of it, and both are      *)
(* classified.                                                               *)

\* how far below 0 and above zoomLevels.LOCAL.max the drawn zooms go (tenths)
ZoomMargin == 10
ClassifyZooms == (0 - ZoomMargin)..(zoomLevels["LOCAL"].max + ZoomMargin)

InitClassify ==
    /\ InitProgram
    /\ probe \in [zoom : ClassifyZooms, other : ClassifyZooms, category : {""},
                  otherCategory : {""}, evaluated : {FALSE}]

Classify ==
    /\ ~probe.evaluated
    /\ probe' = [probe EXCEPT !.category = getZoomCategory(probe.zoom),
                              !.otherCategory = getZoomCategory(probe.other),
                              !.evaluated = TRUE]
    /\ UNCHANGED << isInitialized, activeWeatherLayers, activeKeys, weatherLayers,
                    currentZoomLevel, zoomChangeDebounceTimer, tileCache,
                    currentViewport, prefetchQueue, prefetchInProgress, mapLayers,
                    mapSources, mapZoom, mapCenter, fetches, eventFetches, timers100,
                    timers200, timers1000, uncommitted, userOps, lastOp, clock,
                    server >>

SpecClassify == InitClassify /\ [][Classify]_vars

----------------------------------------------------------------------------
(* Properties *)

NoDuplicates(seq) == \A i, j \in 1..Len(seq) : i # j => seq[i] # seq[j]

\* the sublayers the builders made that are on the map
BuiltLayers == {id \in DOMAIN mapLayers : mapLayers[id].gen = 0}

\* C1: co-activation.  In the state showLayer('temperature') leaves,
\* activeWeatherLayers['cities'] is true; in the state hideLayer('temperature')
\* leaves, it is false.
C1_CoActivation ==
    /\ (lastOp.op = "showLayer" /\ lastOp.layer = "temperature")
          => activeWeatherLayers["cities"]
    /\ (lastOp.op = "hideLayer" /\ lastOp.layer = "temperature")
          => ~activeWeatherLayers["cities"]

\* hideLayer('temperature') has run on a temperature layer that was shown
\* (and had made the city labels active), and the city labels are inactive
C1_Witness ==
    /\ lastOp.op = "hideLayer"
    /\ lastOp.layer = "temperature"
    /\ lastOp.before = "visible"
    /\ ~activeWeatherLayers["temperature"]
    /\ ~activeWeatherLayers["cities"]

\* C2: toggleLayer('cities') leaves activeWeatherLayers['cities'] as it was
\* before the call.
C2_ToggleCitiesKeepsFlag ==
    [][(lastOp'.op = "toggleLayer" /\ lastOp'.layer = "cities")
          => activeWeatherLayers'["cities"] = activeWeatherLayers["cities"]]_vars

C4_RefreshPreservesVisibility ==
    [][lastOp'.op = "restoreVisibility"
          => LET layerId == lastOp'.layer
                 required == weatherLayers[layerId].visibility
             IN /\ weatherLayers'[layerId].visibility = required
                /\ \A id \in Range(weatherLayers'[layerId].layers) :
                      id \in DOMAIN mapLayers' => mapLayers'[id].visibility = required]_vars

\* C5: hideLayer(layerId) leaves every owned sublayer non-visible and the
\* layer inactive, and the map's sources, the map's sublayers and the
\* layer's owned sublayer list as they were.
C5_HideKeepsStructure ==
    [][lastOp'.op = "hideLayer"
          => LET layerId == lastOp'.layer
             IN /\ \A id \in Range(weatherLayers'[layerId].layers) :
                      id \in DOMAIN mapLayers' => mapLayers'[id].visibility = "none"
                /\ ~activeWeatherLayers'[layerId]
                /\ mapSources' = mapSources
                /\ DOMAIN mapLayers' = DOMAIN mapLayers
                /\ weatherLayers'[layerId].layers = weatherLayers[layerId].layers]_vars

\* hideLayer('precipitation') has run on a visible precipitation layer: its
\* sublayer is on the map, hidden
C5_Witness ==
    /\ lastOp.op = "hideLayer"
    /\ lastOp.layer = "precipitation"
    /\ lastOp.before = "visible"
    /\ "precipitation-layer" \in DOMAIN mapLayers
    /\ mapLayers["precipitation-layer"].visibility = "none"
    /\ "precipitation-tiles" \in mapSources

\* C6: showLayer(layerId) of a layer that was created and is hidden runs no
\* builder, adds and removes no source and no sublayer, keeps the owned
\* sublayer list, and leaves the owned sublayers and the layer visible.
C6_ShowFlipsHidden ==
    [][(/\ lastOp'.op = "showLayer"
        /\ weatherLayers[lastOp'.layer].exists
        /\ Len(weatherLayers[lastOp'.layer].layers) > 0
        /\ weatherLayers[lastOp'.layer].visibility = "none")
          => LET layerId == lastOp'.layer
             IN /\ ~lastOp'.built
                /\ mapSources' = mapSources
                /\ DOMAIN mapLayers' = DOMAIN mapLayers
                /\ \A id \in DOMAIN mapLayers : mapLayers'[id].source = mapLayers[id].source
                /\ weatherLayers'[layerId].layers = weatherLayers[layerId].layers
                /\ weatherLayers'[layerId].visibility = "visible"
                /\ activeWeatherLayers'[layerId]
                /\ \A id \in Range(weatherLayers'[layerId].layers) :
                      id \in DOMAIN mapLayers' => mapLayers'[id].visibility = "visible"]_vars

\* showLayer('precipitation') has run on a precipitation layer that had been
\* created and hidden: the layer is visible again and no builder ran
C6_Witness ==
    /\ lastOp.op = "showLayer"
    /\ lastOp.layer = "precipitation"
    /\ lastOp.before = "none"
    /\ ~lastOp.built
    /\ weatherLayers["precipitation"].visibility = "visible"
    /\ mapLayers["precipitation-layer"].visibility = "visible"

\* C7: transition commit.  Every transition handleZoomChange starts for an
\* active tile-backed layer is settled in the end (its transient sublayers
\* removed, refreshLayer invoked): once no createTransitionLayer call waits
\* and no settle timer is pending, no started transition is left unsettled.
C7_TransitionCommits ==
    (fetches = {} /\ timers1000 = << >>) => uncommitted = {}

\* C8: overlapping transitions do not collide.  The settle timer of a
\* transition removes from the map only sublayers that transition created,
\* never a sublayer of a newer one.
C8_RemovalSparesNewer ==
    [][lastOp'.op = "settle"
          => \A id \in (DOMAIN mapLayers) \ (DOMAIN mapLayers') :
                mapLayers[id].gen \in {0, Head(timers1000).gen}]_vars

\* C9: crossfade opacities of a GLOBAL to REGIONAL transition.  The boundary
\* range is half a zoom level either side of the boundary; at every zoom the
\* two opacities sum to 1 (the denominator of the fractions), with from 1 and
\* to 0 at and below the lower end, from 0 and to 1 at and above the upper end.
C9_CrossfadeInverse ==
    (probe.evaluated /\ probe.from = "GLOBAL" /\ probe.to = "REGIONAL")
       => LET stops == OpacityStops("GLOBAL", "REGIONAL")
              one == stops.hi - stops.lo
          IN /\ stops.lo = zoomLevels["REGIONAL"].min - HalfZoom
             /\ stops.hi = zoomLevels["REGIONAL"].min + HalfZoom
             /\ probe.fromOpacity + probe.toOpacity = one
             /\ probe.fromOpacity \in 0..one
             /\ probe.zoom <= stops.lo => (probe.fromOpacity = one /\ probe.toOpacity = 0)
             /\ probe.zoom >= stops.hi => (probe.fromOpacity = 0 /\ probe.toOpacity = one)

\* the two expressions of a GLOBAL to REGIONAL transition evaluated strictly
\* inside the boundary range, off its midpoint: both sublayers are partly
\* opaque, unequally
C9_Witness ==
    /\ probe.evaluated
    /\ probe.from = "GLOBAL"
    /\ probe.to = "REGIONAL"
    /\ probe.zoom = zoomLevels["REGIONAL"].min - 2
    /\ probe.fromOpacity = 7
    /\ probe.toOpacity = 3

\* C10: after a transition has been settled, no source of the layer's
\* per-category tile sources (the transient sources of the transition, the
\* sources of a superseded resolution) is left on the map without a sublayer
\* that uses it.
C10_SourcesDiscarded ==
    lastOp.op = "settle"
       => \A c \in Categories :
             TransitionSourceId(lastOp.layer, c) \in mapSources
                => SourceUsers(Cur, TransitionSourceId(lastOp.layer, c)) # {}
\* C11: a teardown never removes something that is not there.  No handler
\* (settle timer, createTransitionLayer, the builders, initCityLabels) calls
\* removeLayer or removeSource for an id that is not on the map.
C11_TeardownChecksExistence ==
    ~lastOp.removedAbsent

\* the settle timer of a transition found its sublayers absent from the map
\* (the map had refused them), and removed nothing
C11_Witness ==
    /\ lastOp.op = "settle"
    /\ lastOp.skipped
    /\ ~lastOp.removedAbsent

\* C12: zoom debounce.  For every burst of zoom-end events in which each
\* event follows the previous one by less than 300 ms, handleZoomChange runs
\* exactly once, 300 ms after the last event and with the zoom of the last
\* event: it does not run while the burst's timer is pending, a run is the
\* first of its burst, and when the next burst begins, or no timer is
\* pending, the burst has had its run.
C12_DebounceOncePerBurst ==
    [][/\ (clock.due # NoTimer) => clock.decisions = 0
       /\ (clock.due = NoTimer /\ clock.lastEvent # NoTimer) => clock.decisions = 1
       /\ (lastOp'.op = "handleZoomChange" /\ clock'.decisions # clock.decisions) =>
             /\ clock.now = clock.lastEvent + DebounceDelay
             /\ currentZoomLevel' = clock.lastZoom
             /\ clock'.decisions = 1
       /\ (clock'.lastEvent # clock.lastEvent /\ clock'.events = 1
             /\ clock.lastEvent # NoTimer) => clock.decisions = 1]_vars

\* a burst of three events has been answered by one handleZoomChange run
C12_Witness ==
    /\ lastOp.op = "handleZoomChange"
    /\ clock.events = 3
    /\ clock.decisions = 1
    /\ currentZoomLevel = clock.lastZoom

\* C13: prefetch re-entrancy, queue part.  When queueTilePrefetch runs while
\* the consumer is running, every task that was queued and not yet popped is
\* still in the queue, ahead of the new tasks, after the call.
C13_ReentryKeepsQueue ==
    [][(lastOp'.queued /\ prefetchInProgress) =>
          /\ Len(prefetchQueue') >= Len(prefetchQueue)
          /\ SubSeq(prefetchQueue', 1, Len(prefetchQueue)) = prefetchQueue]_vars

\* the steps of prefetch consumers that are pending: popped tasks that have
\* not settled, and 100 ms timers set to call processPrefetchQueue
PendingConsumerSteps ==
    Len(timers200)
    + Cardinality({i \in 1..Len(timers100) : timers100[i].kind = "process"})

\* C14: single consumer.  In every reachable state at most one prefetch
\* consumer chain is running: at most one popped task is unsettled or one
\* pacing timer is pending.
C14_SingleConsumer ==
    PendingConsumerSteps <= 1

\* C15: the prefetch queue is processed first-in first-out by one consumer.
\* A task is popped from the head of the queue, and only after the previous
\* task has settled and its 100 ms pacing gap has elapsed: when a pacing
\* timer pops, it was the only pending consumer step; when queueTilePrefetch
\* starts the consumer, no consumer step was pending.
C15_FifoPaced ==
    [][lastOp'.popped =>
          IF lastOp'.op = "processPrefetchQueue"
          THEN /\ PendingConsumerSteps = 1
               /\ prefetchQueue' = Tail(prefetchQueue)
          ELSE PendingConsumerSteps = 0]_vars

\* C16: every popped task settles exactly once before the loop advances,
\* and is never put back.  The step that pops a task leaves it as the one
\* new pending step (unsettled, or settled with its pacing timer set); the
\* step in which a task settles after its delay takes it out of the
\* unsettled tasks, sets one pacing timer and leaves the queue as it was.
C16_SettlesOnce ==
    [][/\ lastOp'.op = "prefetchTiles" =>
             /\ timers200' = Tail(timers200)
             /\ prefetchQueue' = prefetchQueue
             /\ PendingConsumerSteps' = PendingConsumerSteps
       /\ (lastOp'.op = "processPrefetchQueue" /\ lastOp'.popped) =>
             /\ prefetchQueue' = Tail(prefetchQueue)
             /\ PendingConsumerSteps' = PendingConsumerSteps]_vars

\* a task has settled after its delay: its tiles are cached, the pacing
\* timer is set and the queue has no task for it
C16_Witness ==
    /\ lastOp.op = "prefetchTiles"
    /\ tileCache.prefetched # {}
    /\ \E i \in 1..Len(timers100) : timers100[i] = ProcessTimer
    /\ prefetchQueue = << >>

\* C17: the prefetch consumer terminates.  prefetchInProgress is never true
\* in a state where no consumer step is pending, and eventually the consumer
\* is idle for good: the queue is empty and prefetchInProgress is false.
C17_ConsumerTerminates ==
    /\ [](prefetchInProgress => PendingConsumerSteps >= 1)
    /\ <>[](prefetchQueue = << >> /\ ~prefetchInProgress)

\* the consumer has gone idle after prefetching tiles
C17_Witness ==
    /\ lastOp.op = "processPrefetchQueue"
    /\ ~prefetchInProgress
    /\ prefetchQueue = << >>
    /\ tileCache.prefetched # {}
    /\ PendingConsumerSteps = 0

\* C18: queueTilePrefetch enqueues a task for the active tile-backed layers
\* only: no task in the queue is for a layer that is not tile-backed.
C18_OnlyTileBackedTasks ==
    \A i \in 1..Len(prefetchQueue) : prefetchQueue[i].layerId \in TileBacked

\* the square of a difference
Square(n) == n * n

\* C19: on a move-end, updateViewport replaces currentViewport with the
\* map's center and zoom, and calls queueTilePrefetch if and only if there
\* was no previous viewport, or the zoom changed by more than 0.5, or the
\* Euclidean distance between the centers is more than 0.2 degrees;
\* otherwise the prefetch queue is unchanged.
C19_ViewportTriggersPrefetch ==
    [][lastOp'.op = "moveend" =>
          LET significant ==
                \/ ~currentViewport.hasBounds
                \/ mapZoom' - currentViewport.zoom > ZoomDelta
                \/ currentViewport.zoom - mapZoom' > ZoomDelta
                \/ Square(mapCenter'.lng - currentViewport.center.lng)
                     + Square(mapCenter'.lat - currentViewport.center.lat)
                       > Square(CenterDelta)
          IN /\ currentViewport' = [hasBounds |-> TRUE, center |-> mapCenter',
                                    zoom |-> mapZoom']
             /\ lastOp'.queued <=> significant
             /\ ~significant => prefetchQueue' = prefetchQueue]_vars

\* a move of 0.1 degrees east and 0.2 degrees north, at the same zoom, has
\* queued a prefetch for the active precipitation layer
C19_Witness ==
    /\ lastOp.op = "moveend"
    /\ lastOp.queued
    /\ activeWeatherLayers["precipitation"]
    /\ currentViewport.center = [lng |-> Origin.lng + 1, lat |-> Origin.lat + 2]
    /\ currentViewport.zoom = InitialZoom
    /\ userOps = 2

\* C20: server cache hit.  A getCurrentWeather call whose key is in the
\* cache and unexpired returns the cached value with no upstream call; and
\* two getCurrentWeather calls with the same coordinates within the TTL
\* window result in exactly one upstream call.
C20_CacheHitOneUpstreamCall ==
    /\ [][\A k \in CurrentWeatherKeys :
            (/\ server'.requests[k] # server.requests[k]
             /\ server.cache[k].present
             /\ server.now <= server.cache[k].expires) =>
                /\ server'.upstream = server.upstream
                /\ server'.reply.key = k
                /\ server'.reply.value = server.cache[k].value
                /\ server'.reply.cached]_vars
    /\ [](\A k \in CurrentWeatherKeys :
            (server.now < StdTTL /\ server.requests[k] >= 2) =>
                server.upstream[k] = 1)

\* C28: getZoomCategory is total with exact boundaries (zooms in tenths): a
\* zoom of 8 or more is LOCAL, one of 3 or more and less than 8 REGIONAL, one
\* less than 3 GLOBAL; 2 is GLOBAL, 3 and 7.9 REGIONAL, 8 and 15 LOCAL
C28_ExactBoundaries ==
    probe.evaluated =>
        /\ probe.category \in {"GLOBAL", "REGIONAL", "LOCAL"}
        /\ probe.zoom >= 80 => probe.category = "LOCAL"
        /\ (probe.zoom >= 30 /\ probe.zoom < 80) => probe.category = "REGIONAL"
        /\ probe.zoom < 30 => probe.category = "GLOBAL"
        /\ probe.zoom = 20 => probe.category = "GLOBAL"
        /\ probe.zoom = 30 => probe.category = "REGIONAL"
        /\ probe.zoom = 79 => probe.category = "REGIONAL"
        /\ probe.zoom = 80 => probe.category = "LOCAL"
        /\ probe.zoom = 150 => probe.category = "LOCAL"

\* zoom 7.9 has been classified, as REGIONAL
C28_Witness ==
    probe.evaluated /\ probe.zoom = 79 /\ probe.category = "REGIONAL"

\* GLOBAL < REGIONAL < LOCAL
Rank(cat) ==
    CASE cat = "GLOBAL" -> 0
      [] cat = "REGIONAL" -> 1
      [] cat = "LOCAL" -> 2

\* the band of static zoomLevels: [min, max), and [min, max] for LOCAL
InBand(zoom, cat) ==
    /\ zoomLevels[cat].min <= zoom
    /\ IF cat = "LOCAL" THEN zoom <= zoomLevels[cat].max ELSE zoom < zoomLevels[cat].max

\* C29: for zooms z1 <= z2 in [0, 22] the category of z2 is never less local
\* than that of z1; every zoom in [0, 22] is in exactly one configured band,
\* the band of its category; the bands are [0,3), [3,8) and [8,22]
C29_MonotonicPartition ==
    (/\ probe.evaluated
     /\ probe.zoom \in 0..220
     /\ probe.other \in 0..220) =>
        /\ probe.zoom <= probe.other => Rank(probe.category) <= Rank(probe.otherCategory)
        /\ {c \in Categories : InBand(probe.zoom, c)} = {probe.category}
        /\ zoomLevels["GLOBAL"] = [min |-> 0, max |-> 30]
        /\ zoomLevels["REGIONAL"] = [min |-> 30, max |-> 80]
        /\ zoomLevels["LOCAL"] = [min |-> 80, max |-> 220]

\* a pair of zooms on either side of the GLOBAL / REGIONAL limit is classified
C29_Witness ==
    /\ probe.evaluated
    /\ probe.zoom = 29 /\ probe.category = "GLOBAL"
    /\ probe.other = 30 /\ probe.otherCategory = "REGIONAL"

\* C21: current-weather failures are absorbed.  When the upstream call of
\* getCurrentWeather(lat, lon) fails (no answer, a status outside 2xx, or a
\* body the normalizer cannot read), the call does not throw: it returns a
\* placeholder record of type current_weather whose location carries the
\* requested lat and lon.
C21_CurrentWeatherFailuresAbsorbed ==
    \A c \in CoordChoices :
        (/\ server.reply.key = CurrentWeatherKey(c[1], c[2])
         /\ server.reply.upstream \in {"error", "malformed"}) =>
            /\ server.reply.error = ""
            /\ server.reply.value.type = "current_weather"
            /\ server.reply.value.location.lat = c[1]
            /\ server.reply.value.location.lon = c[2]

\* a getCurrentWeather call has returned the placeholder after a 200 answer
\* with an unreadable body, and nothing was cached for its key
C21_Witness ==
    /\ server.reply.upstream = "malformed"
    /\ server.reply.key \in CurrentWeatherKeys
    /\ server.reply.value.location.name = "Test Location"
    /\ ~server.cache[server.reply.key].present

\* synthetic upstream records for normalizeOpenWeatherData: temperatures and
\* coordinates in tenths, times in epoch seconds
Fixtures ==
    {[OpenWeatherBody(lat, lon, temp, dt) EXCEPT !.sys.sunrise = sunrise,
                                                 !.sys.sunset = sunset] :
        lat \in {-337, 0, 515}, lon \in {-1180, 1512}, temp \in {-105, 0, 253},
        dt \in {0, 1, 2000000}, sunrise \in {1, 1999990},
        sunset \in {43200, 2000020}}

InitNormalize ==
    /\ InitProgram
    /\ probe \in [input : Fixtures, output : {<< >>}, evaluated : {FALSE}]

Normalize ==
    /\ ~probe.evaluated
    /\ probe' = [probe EXCEPT !.output = normalizeOpenWeatherData(probe.input),
                              !.evaluated = TRUE]
    /\ UNCHANGED << isInitialized, activeWeatherLayers, activeKeys, weatherLayers,
                    currentZoomLevel, zoomChangeDebounceTimer, tileCache,
                    currentViewport, prefetchQueue, prefetchInProgress, mapLayers,
                    mapSources, mapZoom, mapCenter, fetches, eventFetches, timers100,
                    timers200, timers1000, uncommitted, userOps, lastOp, clock,
                    server >>

SpecNormalize == InitNormalize /\ [][Normalize]_vars

\* C30: the current-weather normalizer reproduces its input.  For every
\* well-formed upstream record the normalized temperature and coordinates
\* equal the upstream values, and timestamp, sunrise and sunset are the
\* upstream epoch seconds times exactly 1000.
C30_NormalizerRoundTrip ==
    probe.evaluated =>
        /\ probe.output.type = "current_weather"
        /\ probe.output.weather.temperature = probe.input.main.temp
        /\ probe.output.location.lat = probe.input.coord.lat
        /\ probe.output.location.lon = probe.input.coord.lon
        /\ probe.output.timestamp = 1000 * probe.input.dt
        /\ probe.output.sunrise = 1000 * probe.input.sys.sunrise
        /\ probe.output.sunset = 1000 * probe.input.sys.sunset

\* a record with a negative temperature, taken at 2,000,000 s, was normalized
\* to the timestamp 2,000,000,000 ms
C30_Witness ==
    /\ probe.evaluated
    /\ probe.input.main.temp = -105
    /\ probe.input.dt = 2000000
    /\ probe.output.weather.temperature = -105
    /\ probe.output.timestamp = 2000000000

\* the members of a normalized current-weather record and of a tile-metadata
\* record
CurrentWeatherMembers == {"type", "location", "weather", "timestamp", "sunrise", "sunset"}
TileMetadataMembers ==
    {"url", "tileSize", "minZoom", "maxZoom", "resolution", "attribution",
     "hasTileCoverage", "timestamp"}

\* the value is what the normalizer (or the metadata builder) of the key's
\* getter makes, whole
NormalizedPayload(key, value) ==
    CASE key \in CurrentWeatherKeys ->
           /\ DOMAIN value = CurrentWeatherMembers
           /\ value.type = "current_weather"
           /\ DOMAIN value.location = {"name", "country", "lat", "lon"}
           /\ "temperature" \in DOMAIN value.weather
      [] key \in TileKeys ->
           /\ DOMAIN value = TileMetadataMembers
           /\ value.url # ""
      [] key \in {ForecastKey(c[1], c[2]) : c \in CoordChoices} ->
           /\ DOMAIN value = {"type", "location", "forecast"}
           /\ value.type = "forecast"
      [] key = HurricaneKey ->
           \A i \in 1..Len(value) : value[i].type = "hurricane"
      [] key \in {WildfireKey(d) : d \in DayChoices} ->
           \A i \in 1..Len(value) : value[i].type = "wildfire"
      [] key = DisasterKey ->
           \A i \in 1..Len(value) : value[i].type = "natural_disaster"

\* C23: in every reachable state, whatever the interleaving of the requests
\* in flight, every value in the weather cache is a whole normalized payload:
\* never the body the upstream API sent, never a part of a record; and a
\* value a call returned from the cache is such a payload.
C23_CacheHoldsNormalizedPayloads ==
    /\ \A k \in CacheKeys :
          server.cache[k].present => NormalizedPayload(k, server.cache[k].value)
    /\ server.reply.cached => NormalizedPayload(server.reply.key, server.reply.value)

\* two current-weather requests were in flight together, the answer to one
\* has been normalized and cached while the other still waits, and a
\* tile-metadata record is cached as well
C23_Witness ==
    /\ \E k \in CurrentWeatherKeys :
          /\ server.cache[k].present
          /\ server.cache[k].value.weather.temperature \in UpstreamTemps
          /\ \E call \in server.inflight : call.key = k
    /\ \E k \in TileKeys : server.cache[k].present

\* C24: cache entries expire by kind.  A request for a tile-metadata key is
\* served from the cache while at most 600 s have passed since the entry was
\* written, a request for any other key while at most 1800 s have passed;
\* later the request is a miss: tile metadata is generated and written
\* again, any other value is fetched from the upstream API again.  (A layer
\* type outside the catalog has no metadata: its request throws and writes
\* nothing.)
C24_ExpiryByKind ==
    [][\A k \in CacheKeys :
          server'.requests[k] # server.requests[k] =>
             IF /\ server.cache[k].present
                /\ server.now - server.cache[k].written
                     <= (IF k \in TileKeys THEN 600 ELSE 1800)
             THEN /\ server'.reply.cached
                  /\ server'.reply.key = k
                  /\ server'.reply.value = server.cache[k].value
                  /\ server'.cache = server.cache
                  /\ server'.upstream = server.upstream
             ELSE IF k \in {TilesKey(l, c) : l \in DOMAIN TileCodes, c \in Categories}
             THEN /\ ~server'.reply.cached
                  /\ server'.reply.key = k
                  /\ server'.cache[k].present
                  /\ server'.cache[k].written = server.now
                  /\ server'.cache[k].value = server'.reply.value
             ELSE IF k \in TileKeys
             THEN /\ server'.reply.error # ""
                  /\ server'.cache = server.cache
             ELSE server'.upstream[k] = server.upstream[k] + 1]_vars

\* a tile-metadata entry written at time 0 was served from the cache or left
\* alone until 600 s, and a request 900 s or more after the write has
\* generated it again
C24_Witness ==
    \E k \in TileKeys :
        /\ server.requests[k] = 2
        /\ server.cache[k].present
        /\ server.cache[k].written >= 900
        /\ server.cache[k].value.timestamp = server.cache[k].written * 1000
        /\ server.reply.key = k
        /\ ~server.reply.cached

\* C22: forecast, hurricane, wildfire and disaster failures propagate.  When
\* the upstream call of one of these getters fails, the getter throws its
\* "Failed to fetch ..." error to the caller, and the failed call leaves the
\* cache as it was: no entry is written for its key.
C22_FeedFailuresPropagate ==
    [][\A call \in server.inflight \ server'.inflight :
          /\ server'.reply.upstream = "error" =>
                /\ server'.reply.key = call.key
                /\ server'.reply.error =
                      (CASE call.method = "getWeatherForecast" ->
                              "Failed to fetch weather forecast data"
                         [] call.method = "getHurricaneData" ->
                              "Failed to fetch hurricane data"
                         [] call.method = "getWildfireData" ->
                              "Failed to fetch wildfire data"
                         [] call.method = "getNaturalDisasterData" ->
                              "Failed to fetch natural disaster data")
                /\ server'.cache = server.cache
          /\ server'.reply.error # "" => server'.cache = server.cache]_vars

\* a hurricane request failed upstream: its caller got the error, and the
\* cache has no entry for hurricanes
C22_Witness ==
    /\ server.reply.key = HurricaneKey
    /\ server.reply.upstream = "error"
    /\ server.reply.error = "Failed to fetch hurricane data"
    /\ server.requests[HurricaneKey] = 1
    /\ ~server.cache[HurricaneKey].present

----------------------------------------------------------------------------
(* The client's getTileMetadata against the service: the value the promise  *)
(* resolves with                                                            *)

\* the API key in the client's URL templates
ClientApiKey == "6c14f64dcf8546cad54c8a33c52bd577"

\* baseUrls[layerId]?.[zoomCategory] || baseUrls[layerId]?.GLOBAL; "" is
\* undefined, for a layer id outside the catalog
getSourceUrlForLayer(layerId, zoomCategory) ==
    IF layerId \notin DOMAIN TileCodes THEN ""
    ELSE IF zoomCategory \in Categories
    THEN TileUrl(layerId, zoomCategory, ClientApiKey)
    ELSE TileUrl(layerId, "GLOBAL", ClientApiKey)

\* the object the catch block of getTileMetadata returns, at time `now`
FallbackMetadata(layerId, zoomCategory, now) ==
    [url |-> getSourceUrlForLayer(layerId, zoomCategory),
     tileSize |-> 256,
     minZoom |-> IF zoomCategory = "GLOBAL" THEN 0
                 ELSE IF zoomCategory = "REGIONAL" THEN 3 ELSE 8,
     maxZoom |-> IF zoomCategory = "GLOBAL" THEN 3
                 ELSE IF zoomCategory = "REGIONAL" THEN 8 ELSE 22,
     resolution |-> IF zoomCategory = "GLOBAL" THEN "low"
                    ELSE IF zoomCategory = "REGIONAL" THEN "medium" ELSE "high",
     attribution |-> "(c) OpenWeatherMap",
     hasTileCoverage |-> FALSE,
     timestamp |-> now * 1000]

\* the getTileMetadata calls of one session, and the requests made: the four
\* layers of the catalog and one layer outside it
MaxTileCalls == 2
ClientTileRequests == (TileBacked \cup {"hurricane"}) \X Categories

\* the call: its arguments, where it stands ("idle", "sent", "resolved" or
\* "rejected"), what it resolved with and from where, and this.tileCache as
\* the set of its keys with their values
NoTileCall ==
    [layerId |-> "", zoomCategory |-> "", stage |-> "idle", result |-> << >>,
     from |-> "", cache |-> {}, calls |-> 0]

CachedMetadata(p, key) == {e \in p.cache : e.key = key}

\* getTileMetadata up to its await: a cached value is returned, otherwise
\* the POST to /api/weather/tiles is sent
TileMetadataRequested(p, layerId, zoomCategory) ==
    IF CachedMetadata(p, TilesKey(layerId, zoomCategory)) # {}
    THEN [p EXCEPT !.layerId = layerId, !.zoomCategory = zoomCategory,
                   !.stage = "resolved", !.from = "cache", !.calls = @ + 1,
                   !.result = (CHOOSE e \in CachedMetadata(p, TilesKey(layerId, zoomCategory)) :
                                  TRUE).value]
    ELSE [p EXCEPT !.layerId = layerId, !.zoomCategory = zoomCategory,
                   !.stage = "sent", !.from = "", !.calls = @ + 1, !.result = << >>]

\* getTileMetadata whose catch block throws the error on
TileMetadataSettledRethrows(p, ok, metadata, now) ==
    IF ok
    THEN [p EXCEPT !.stage = "resolved", !.from = "server", !.result = metadata,
                   !.cache = @ \cup {[key |-> TilesKey(p.layerId, p.zoomCategory),
                                      value |-> metadata]}]
    ELSE [p EXCEPT !.stage = "rejected", !.from = "", !.result = << >>]

\* getTileMetadata after its await: the metadata of a 2xx answer is cached
\* and returned; when fetch rejects or the answer is not ok, the catch block
\* returns the fallback object, which is not cached
TileMetadataSettled(p, ok, metadata, now) ==
    IF ok
    THEN [p EXCEPT !.stage = "resolved", !.from = "server", !.result = metadata,
                   !.cache = @ \cup {[key |-> TilesKey(p.layerId, p.zoomCategory),
                                      value |-> metadata]}]
    ELSE [p EXCEPT !.stage = "resolved", !.from = "fallback",
                   !.result = FallbackMetadata(p.layerId, p.zoomCategory, now)]

InitTiles ==
    /\ InitProgram
    /\ probe = NoTileCall

TileCallUnchanged ==
    UNCHANGED << isInitialized, activeWeatherLayers, activeKeys, weatherLayers,
                 currentZoomLevel, zoomChangeDebounceTimer, tileCache,
                 currentViewport, prefetchQueue, prefetchInProgress, mapLayers,
                 mapSources, mapZoom, mapCenter, fetches, eventFetches, timers100,
                 timers200, timers1000, uncommitted, userOps, lastOp, clock >>

GetTileMetadata(layerId, zoomCategory) ==
    /\ probe.stage # "sent"
    /\ probe.calls < MaxTileCalls
    /\ probe' = TileMetadataRequested(probe, layerId, zoomCategory)
    /\ UNCHANGED server
    /\ TileCallUnchanged

\* the request reaches the service, which answers 200 with the metadata, or
\* with an error status when getWeatherTileMetadata throws
TileServiceReplies ==
    /\ probe.stage = "sent"
    /\ server' = getWeatherTileMetadata(server, probe.layerId, probe.zoomCategory)
    /\ probe' = TileMetadataSettled(probe, server'.reply.error = "",
                                    server'.reply.value, server.now)
    /\ TileCallUnchanged

\* the request does not reach the service (fetch rejects), or what answers is
\* not the service (a status outside 2xx)
TileRequestFails ==
    /\ probe.stage = "sent"
    /\ probe' = TileMetadataSettled(probe, FALSE, << >>, server.now)
    /\ UNCHANGED server
    /\ TileCallUnchanged

TileClockTick ==
    /\ server.now < MaxServerTime
    /\ server' = [server EXCEPT !.now = @ + ClockStep]
    /\ UNCHANGED probe
    /\ TileCallUnchanged

NextTiles ==
    \/ \E r \in ClientTileRequests : GetTileMetadata(r[1], r[2])
    \/ TileServiceReplies
    \/ TileRequestFails
    \/ TileClockTick

SpecTiles == InitTiles /\ [][NextTiles]_vars

\* C25: tile-metadata requests never error.  For every layer id and zoom
\* category, getTileMetadata never rejects; when the request to the server
\* fails or is answered with a status outside 2xx, it resolves with the
\* hardcoded entry of the requested category: minZoom and maxZoom are the
\* category's bounds in static zoomLevels, the resolution is low, medium or
\* high for GLOBAL, REGIONAL or LOCAL, and for a layer of the catalog the url
\* is the catalog's template of that layer and category.
C25_TileMetadataNeverErrors ==
    /\ probe.stage # "rejected"
    /\ (probe.stage = "resolved" /\ probe.from = "fallback") =>
          /\ probe.result.minZoom * 10 = zoomLevels[probe.zoomCategory].min
          /\ probe.result.maxZoom * 10 = zoomLevels[probe.zoomCategory].max
          /\ probe.result.resolution =
                (CASE probe.zoomCategory = "GLOBAL" -> "low"
                   [] probe.zoomCategory = "REGIONAL" -> "medium"
                   [] probe.zoomCategory = "LOCAL" -> "high")
          /\ probe.layerId \in TileBacked =>
                /\ probe.result.url = getSourceUrlForLayer(probe.layerId, probe.zoomCategory)
                /\ \A c \in Categories \ {probe.zoomCategory} :
                      probe.result.url # getSourceUrlForLayer(probe.layerId, c)
          /\ (probe.layerId = "precipitation" /\ probe.zoomCategory = "LOCAL") =>
                probe.result.url =
                    "https://maps.openweathermap.org/maps/2.0/weather/PAC0/{z}/{x}/{y}?appid=6c14f64dcf8546cad54c8a33c52bd577&fill_bound=true&opacity=0.9"

\* the request for the precipitation metadata at REGIONAL zoom failed, and
\* the call resolved with the REGIONAL fallback entry
C25_Witness ==
    /\ probe.stage = "resolved"
    /\ probe.from = "fallback"
    /\ probe.layerId = "precipitation"
    /\ probe.zoomCategory = "REGIONAL"
    /\ probe.result.minZoom = 3
    /\ probe.result.maxZoom = 8
    /\ probe.result.resolution = "medium"
    /\ probe.cache = {}

----------------------------------------------------------------------------
(* Sessions in which map.addSource and map.addLayer may throw (as they do  *)
(* while the style of the map is not loaded): the user shows and hides     *)
(* layers, and active layers are refreshed                                 *)

\* the faults of one handler run: any call of the builder (the longest, the
\* GLOBAL temperature builder, makes five), any call of the placeholder
FaultChoices ==
    [builder : 0..Len(TemperatureCalls(Cur, "GLOBAL")), fallback : 0..Len(FallbackCalls)]
\* the show, hide and refresh calls of one session
MaxFaultOps == 2

\* what the last show or refresh ran with and what threw in it
FaultReport(layerId, s) ==
    [layer |-> layerId, fault |-> s.fault, thrown |-> s.thrown,
     fallbackThrown |-> s.fallbackThrown]

InitFaults ==
    /\ InitProgram
    /\ probe = [layer |-> "", fault |-> NoFault, thrown |-> FALSE,
                fallbackThrown |-> FALSE]

RunsWithFaults(name, layerId, s) ==
    /\ isInitialized
    /\ userOps < MaxFaultOps
    /\ userOps' = userOps + 1
    /\ Runs(name, layerId, s)
    /\ probe' = FaultReport(layerId, s)
    /\ UNCHANGED << zoomChangeDebounceTimer, clock, server >>

ShowLayerWithFaults(layerId, fault) ==
    RunsWithFaults("showLayer", layerId, showLayer([Cur EXCEPT !.fault = fault], layerId))

\* handleZoomChange's refreshLayer call for an active layer
RefreshLayerWithFaults(layerId, zoomCategory, fault) ==
    /\ activeWeatherLayers[layerId]
    /\ RunsWithFaults("refreshLayer", layerId,
                      refreshLayer([Cur EXCEPT !.fault = fault], layerId, zoomCategory))

HideLayerAmongFaults(layerId) ==
    RunsWithFaults("hideLayer", layerId, hideLayer(Cur, layerId))

NextFaults ==
    \/ InitWeatherControls
    \/ \E layerId \in LayerIds, fault \in FaultChoices :
          ShowLayerWithFaults(layerId, fault)
    \/ \E layerId \in LayerIds, zoomCategory \in Categories, fault \in FaultChoices :
          RefreshLayerWithFaults(layerId, zoomCategory, fault)
    \/ \E layerId \in LayerIds : HideLayerAmongFaults(layerId)
    \/ \E zoomCategory \in Categories : EventFetched(zoomCategory)
    \/ Timer100Fire
    \/ Timer200Fire

SpecFaults == InitFaults /\ [][NextFaults]_vars

\* the temperature record owns sublayers, each of them on the map
TemperatureHasSublayers ==
    /\ weatherLayers["temperature"].exists
    /\ weatherLayers["temperature"].layers # << >>
    /\ \A i \in 1..Len(weatherLayers["temperature"].layers) :
          weatherLayers["temperature"].layers[i] \in DOMAIN mapLayers

\* C26: when the temperature builder fails at any step, the temperature
\* layer falls back to the placeholder.  Right after showLayer('temperature')
\* or a refresh of the temperature layer in which the builder threw, the
\* temperature record owns a non-empty list of sublayers that are on the
\* map: an active temperature layer is not left without sublayers.
C26_TemperatureFallsBack ==
    (/\ lastOp.op \in {"showLayer", "refreshLayer"}
     /\ lastOp.layer = "temperature"
     /\ probe.thrown) =>
        /\ activeWeatherLayers["temperature"]
        /\ TemperatureHasSublayers

\* C27: a rendering failure while creating one layer is caught per layer and
\* does not affect the other layers.  When the builder of a show or a
\* refresh of a layer throws, the active flag, the record (visibility and
\* owned sublayers) and the map sublayers of every other layer are as they
\* were (the city labels, which showLayer('temperature') shows with the
\* layer, aside).
C27_FailedCreationLeavesOthers ==
    [][(/\ userOps' # userOps
        /\ lastOp'.op \in {"showLayer", "refreshLayer"}
        /\ probe'.thrown) =>
          \A l \in LayerIds \ {probe'.layer} :
              (lastOp'.op = "showLayer" /\ probe'.layer = "temperature" /\ l = "cities")
              \/ /\ activeWeatherLayers'[l] = activeWeatherLayers[l]
                 /\ weatherLayers'[l] = weatherLayers[l]
                 /\ \A i \in 1..Len(weatherLayers[l].layers) :
                      LET id == weatherLayers[l].layers[i]
                      IN /\ (id \in DOMAIN mapLayers') = (id \in DOMAIN mapLayers)
                         /\ id \in DOMAIN mapLayers => mapLayers'[id] = mapLayers[id]]_vars

\* the builder of the precipitation layer threw at its addLayer call while
\* the temperature layer was active with its sublayers on the map, which
\* are still there
C27_Witness ==
    /\ lastOp.op = "showLayer"
    /\ probe.layer = "precipitation"
    /\ probe.thrown
    /\ probe.fault.builder = 2
    /\ ~weatherLayers["precipitation"].exists
    /\ "precipitation-tiles" \in mapSources
    /\ activeWeatherLayers["temperature"]
    /\ weatherLayers["temperature"].layers =
          << "temperature-global-layer", "climate-zones-lines", "climate-zones-labels" >>
    /\ TemperatureHasSublayers

\* C39: the current-weather placeholder is never cached.  A getCurrentWeather
\* call that ends with the placeholder (upstream failed or answered with an
\* unreadable body) leaves the cache as it was; a call for coordinates whose
\* key the cache does not hold goes upstream again; and the call whose
\* upstream answer is readable returns the normalized answer, not the
\* placeholder, and caches it.
C39_PlaceholderNeverCached ==
    [][\A c \in CoordChoices :
         LET k == CurrentWeatherKey(c[1], c[2])
         IN /\ (/\ server'.reply # server.reply
                /\ server'.reply.key = k
                /\ server'.reply.upstream \in {"error", "malformed"}) =>
                   /\ server'.cache = server.cache
                   /\ ~server'.reply.cached
            /\ (/\ server'.requests[k] = server.requests[k] + 1
                /\ ~CacheHas(server, k)) =>
                   /\ server'.upstream[k] = server.upstream[k] + 1
                   /\ \E call \in server'.inflight \ server.inflight :
                         call.key = k
            /\ (/\ server'.reply # server.reply
                /\ server'.reply.key = k
                /\ server'.reply.upstream = "ok") =>
                   /\ server'.reply.value \in
                         {normalizeOpenWeatherData(OpenWeatherBody(c[1], c[2], t, server.now)) :
                             t \in UpstreamTemps}
                   /\ server'.reply.value.location.name # "Test Location"
                   /\ server'.cache[k].present
                   /\ server'.cache[k].value = server'.reply.value]_vars

\* the first call for a pair of coordinates ended with the placeholder, the
\* cache holds nothing for the key, and the next call for the same
\* coordinates has been sent upstream
C39_Witness ==
    \E c \in CoordChoices :
        LET k == CurrentWeatherKey(c[1], c[2])
        IN /\ server.reply.key = k
           /\ server.reply.upstream = "error"
           /\ server.reply.value = getFakeWeatherData(c[1], c[2], server.now)
           /\ ~server.cache[k].present
           /\ server.requests[k] = 2
           /\ server.upstream[k] = 2
           /\ Sum(server.requests, CacheKeys) = 2
           /\ \E call \in server.inflight : call.key = k /\ call.id = 1
           /\ Cardinality(server.inflight) = 1

\* the normalizer of the disaster feed on its own: the feeds it is applied to
MaxEvents == 2
GeometryChoices ==
    {<< >>,
     << [date |-> "1970-01-01T00:00:01Z", coordinates |-> << -900, 250 >>] >>,
     << [date |-> "1970-01-02T00:00:00Z", coordinates |-> << 1200, -300 >>] >>,
     << [date |-> "1970-01-01T00:00:01Z", coordinates |-> << -900, 250 >>],
        [date |-> "1970-01-02T00:00:00Z", coordinates |-> << 1200, -300 >>] >>,
     << [date |-> "1970-01-02T00:00:00Z", coordinates |-> << 1200, -300 >>],
        [date |-> "1970-01-01T00:00:01Z", coordinates |-> << -900, 250 >>] >>}
\* the events of the feed: with a geometry member, without one, and without a
\* description
EventChoices ==
    {[id |-> "EONET_" \o ToString(Len(g)) \o "_" \o
                IF Len(g) = 0 THEN "none" ELSE g[1].date,
      title |-> "Flood", description |-> "high water",
      categories |-> << [title |-> "Floods"], [title |-> "Severe Storms"] >>,
      geometry |-> g,
      sources |-> << [id |-> "src", url |-> "https://example.org"] >>] :
        g \in GeometryChoices}
    \cup {[id |-> "EONET_bare", title |-> "Wildfire", description |-> "",
           categories |-> << [title |-> "Wildfires"] >>, sources |-> << >>],
          [id |-> "EONET_terse", title |-> "Volcano",
           categories |-> << [title |-> "Volcanoes"] >>,
           geometry |-> << [date |-> "1970-01-01T00:00:01Z",
                            coordinates |-> << 1200, -300 >>] >>,
           sources |-> << >>]}
RECURSIVE EventLists(_)
EventLists(n) ==
    IF n = 0 THEN {<< >>}
    ELSE EventLists(n - 1)
            \cup {Append(events, e) : events \in EventLists(n - 1), e \in EventChoices}
DisasterFeeds ==
    {[events |-> events] : events \in EventLists(MaxEvents)}
        \cup {MalformedBody, [title |-> "EONET Events"]}

InitDisaster ==
    /\ InitProgram
    /\ probe \in [input : DisasterFeeds, output : {<< >>}, evaluated : {FALSE}]

NormalizeDisaster ==
    /\ ~probe.evaluated
    /\ probe' = [probe EXCEPT !.output = normalizeDisasterData(probe.input),
                              !.evaluated = TRUE]
    /\ UNCHANGED << isInitialized, activeWeatherLayers, activeKeys, weatherLayers,
                    currentZoomLevel, zoomChangeDebounceTimer, tileCache,
                    currentViewport, prefetchQueue, prefetchInProgress, mapLayers,
                    mapSources, mapZoom, mapCenter, fetches, eventFetches, timers100,
                    timers200, timers1000, uncommitted, userOps, lastOp, clock,
                    server >>

SpecDisaster == InitDisaster /\ [][NormalizeDisaster]_vars

\* whether the event has a geometry member with at least one entry
HasGeometry(event) == "geometry" \in DOMAIN event /\ Len(event.geometry) > 0

\* C31: the disaster normalizer yields one record per upstream event in
\* upstream order; for an event with geometry the record is made of the first
\* geometry entry only, whose [lon, lat] coordinates become lat and lon; for
\* an event with a missing or an empty geometry the location and the
\* timestamp are null; a feed without an events array yields the empty list.
C31_DisasterRecords ==
    probe.evaluated =>
        IF "events" \notin DOMAIN probe.input
        THEN probe.output = << >>
        ELSE /\ Len(probe.output) = Len(probe.input.events)
             /\ \A i \in DOMAIN probe.input.events :
                  /\ probe.output[i].id = probe.input.events[i].id
                  /\ probe.output[i].category = probe.input.events[i].categories[1].title
                  /\ HasGeometry(probe.input.events[i]) =>
                       /\ probe.output[i].location =
                            Some([lat |-> probe.input.events[i].geometry[1].coordinates[2],
                                  lon |-> probe.input.events[i].geometry[1].coordinates[1]])
                       /\ probe.output[i].timestamp =
                            Some(DateGetTime(probe.input.events[i].geometry[1].date))
                  /\ ~HasGeometry(probe.input.events[i]) =>
                       /\ probe.output[i].location = Null
                       /\ probe.output[i].timestamp = Null

\* a feed of an event without a geometry member followed by an event with two
\* geometry entries was normalized to two records in that order: the first
\* with a null location, the second located by the first entry, lat 25.0 and
\* lon -90.0
C31_Witness ==
    /\ probe.evaluated
    /\ "events" \in DOMAIN probe.input
    /\ Len(probe.input.events) = 2
    /\ "geometry" \notin DOMAIN probe.input.events[1]
    /\ Len(probe.input.events[2].geometry) = 2
    /\ probe.input.events[2].geometry[1].coordinates = << -900, 250 >>
    /\ Len(probe.output) = 2
    /\ probe.output[1].id = "EONET_bare"
    /\ probe.output[1].location = Null
    /\ probe.output[1].timestamp = Null
    /\ probe.output[2].location = Some([lat |-> 250, lon |-> -900])
    /\ probe.output[2].timestamp = Some(1000)

\* the zoom at which the category changes on the way from one category to
\* another: the lower end of the higher of the two
CategoryBoundary(fromZoomCategory, toZoomCategory) ==
    IF Rank(fromZoomCategory) < Rank(toZoomCategory)
    THEN zoomLevels[toZoomCategory].min
    ELSE zoomLevels[fromZoomCategory].min

\* C37: the crossfade range is well formed in both directions.  For every
\* transition whose sublayers createTransitionLayer has built (its settle
\* timer is pending), zooming in or out, the lower interpolation stop
\* zoomLevels[from].max - 0.5 is strictly less than the upper stop
\* zoomLevels[to].min + 0.5, and the range contains the zoom boundary between
\* the two categories.
C37_CrossfadeRangeWellFormed ==
    \A i \in 1..Len(timers1000) :
        /\ OpacityStops(timers1000[i].from, timers1000[i].to).lo
              < OpacityStops(timers1000[i].from, timers1000[i].to).hi
        /\ CategoryBoundary(timers1000[i].from, timers1000[i].to)
              >= OpacityStops(timers1000[i].from, timers1000[i].to).lo
        /\ CategoryBoundary(timers1000[i].from, timers1000[i].to)
              <= OpacityStops(timers1000[i].from, timers1000[i].to).hi

\* the ids of the sublayers and of the sources createTransitionLayer makes
\* for an active tile-backed layer on the way between two categories
TransitionLayersOf(active, oldCategory, newCategory) ==
    UNION {{TransitionId(l, oldCategory, newCategory) \o "-from",
            TransitionId(l, oldCategory, newCategory) \o "-to"} :
                l \in {x \in LayerIds \cap TileBacked : active[x]}}
TransitionSourcesOf(active, oldCategory, newCategory) ==
    UNION {{TransitionSourceId(l, oldCategory), TransitionSourceId(l, newCategory)} :
                l \in {x \in LayerIds \cap TileBacked : active[x]}}

\* C32: handleZoomChange acts only on a category boundary crossing.  When the
\* old and the new zoom are in the same category the call sets
\* currentZoomLevel and changes nothing else: no sublayer or source is
\* created, no timer is set, no layer is refreshed.  When the category
\* changed, the transitions started, their sublayers, sources and settle
\* timers are those of layers that are active and tile-backed, and no layer
\* record is rebuilt by the call itself.
C32_ActsOnCategoryCrossing ==
    [][(/\ lastOp'.op = "handleZoomChange"
        /\ zoomChangeDebounceTimer # NoTimer
        /\ zoomChangeDebounceTimer' = NoTimer) =>
         /\ currentZoomLevel' = zoomChangeDebounceTimer
         /\ IF getZoomCategory(currentZoomLevel) = getZoomCategory(zoomChangeDebounceTimer)
            THEN UNCHANGED << activeWeatherLayers, activeKeys, weatherLayers, tileCache,
                              currentViewport, prefetchQueue, prefetchInProgress,
                              mapLayers, mapSources, mapZoom, mapCenter, fetches,
                              eventFetches, timers100, timers200, timers1000,
                              uncommitted >>
            ELSE /\ \A t \in fetches' \ fetches :
                       /\ activeWeatherLayers[t.layer]
                       /\ t.layer \in TileBacked
                       /\ t.from = getZoomCategory(currentZoomLevel)
                       /\ t.to = getZoomCategory(zoomChangeDebounceTimer)
                 /\ \A i \in (Len(timers1000) + 1)..Len(timers1000') :
                       /\ activeWeatherLayers[timers1000'[i].layer]
                       /\ timers1000'[i].layer \in TileBacked
                 /\ (DOMAIN mapLayers') \ (DOMAIN mapLayers) \subseteq
                       TransitionLayersOf(activeWeatherLayers,
                                          getZoomCategory(currentZoomLevel),
                                          getZoomCategory(zoomChangeDebounceTimer))
                 /\ mapSources' \ mapSources \subseteq
                       TransitionSourcesOf(activeWeatherLayers,
                                           getZoomCategory(currentZoomLevel),
                                           getZoomCategory(zoomChangeDebounceTimer))
                 /\ \A l \in LayerIds : weatherLayers'[l] = weatherLayers[l]
                 /\ UNCHANGED << activeWeatherLayers, eventFetches, timers200 >>]_vars

\* handleZoomChange has run on the way from GLOBAL to REGIONAL while
\* precipitation and the hurricane layer were active: one transition is
\* waiting for its metadata, that of precipitation
C32_Witness ==
    /\ lastOp.op = "handleZoomChange"
    /\ currentZoomLevel = 50
    /\ activeWeatherLayers["precipitation"]
    /\ activeWeatherLayers["hurricane"]
    /\ ~activeWeatherLayers["temperature"]
    /\ {t.layer : t \in fetches} = {"precipitation"}
    /\ \E t \in fetches : t.from = "GLOBAL" /\ t.to = "REGIONAL"

\* no debounce timer, settle timer, restore timer or metadata fetch is pending
ZoomQuiescent ==
    /\ zoomChangeDebounceTimer = NoTimer
    /\ timers1000 = << >>
    /\ \A i \in 1..Len(timers100) : timers100[i].kind # "restore"
    /\ fetches = {}

\* C33: resolution follows the viewport.  In every state where no debounce
\* timer, settle timer, restore timer or metadata fetch is pending, the
\* zoomCategory recorded for an active temperature layer is
\* getZoomCategory(currentZoomLevel).
C33_ResolutionFollowsViewport ==
    (/\ ZoomQuiescent
     /\ activeWeatherLayers["temperature"]
     /\ weatherLayers["temperature"].exists) =>
        weatherLayers["temperature"].zoomCategory = getZoomCategory(currentZoomLevel)

\* the record of the layer says visible and every sublayer it lists is
\* visible on the map
ShownOnMap(id) ==
    /\ weatherLayers[id].visibility = "visible"
    /\ \A i \in 1..Len(weatherLayers[id].layers) :
          /\ weatherLayers[id].layers[i] \in DOMAIN mapLayers
          /\ mapLayers[weatherLayers[id].layers[i]].visibility = "visible"

\* C34: the active flag and the visibility agree.  In every state after
\* initWeatherControls has completed, for every layer id that has a layer
\* record, the record's visibility is 'visible' and its sublayers are visible
\* if and only if activeWeatherLayers[id] is true.
C34_ActiveAgreesWithVisibility ==
    isInitialized =>
        \A id \in LayerIds :
            weatherLayers[id].exists => (ShownOnMap(id) <=> activeWeatherLayers[id])

\* C35: layer records are never stale.  In every state, every sublayer id
\* listed in a layer record exists on the map, and every weather sublayer on
\* the map is listed in some layer record or in the transitions record, also
\* after a builder failed part-way through a creation.
C35_RecordsNeverStale ==
    /\ \A r \in RecordIds :
          weatherLayers[r].exists =>
              \A i \in 1..Len(weatherLayers[r].layers) :
                  weatherLayers[r].layers[i] \in DOMAIN mapLayers
    /\ \A id \in DOMAIN mapLayers :
          \E r \in RecordIds :
              /\ weatherLayers[r].exists
              /\ id \in Range(weatherLayers[r].layers)

\* C36: no dangling source.  In every state every sublayer on the map
\* references a source that is on the map; the removals at the head of
\* createTransitionLayer (run by handleZoomChange) take no source that a main
\* sublayer or a sublayer of a pending transition is using; and when
\* createTransitionLayer resumes after its metadata fetches, neither of the
\* two source ids it adds is on the map already.
C36_NoDanglingSource ==
    /\ [](\A id \in DOMAIN mapLayers : mapLayers[id].source \in mapSources)
    /\ [][(zoomChangeDebounceTimer # NoTimer /\ zoomChangeDebounceTimer' = NoTimer) =>
            \A id \in (DOMAIN mapLayers) \cap (DOMAIN mapLayers') :
                mapLayers[id].source \in mapSources']_vars
    /\ [][\A task \in fetches :
            (\A t \in fetches' : t.gen # task.gen) =>
                /\ TransitionSourceId(task.layer, task.from) \notin mapSources
                /\ TransitionSourceId(task.layer, task.to) \notin mapSources]_vars

\* the ids createTransitionLayer gives the two sublayers of a transition of
\* the layer, whatever the two categories
TransitionSublayers(layerId) ==
    UNION {{TransitionId(layerId, a, b) \o "-from", TransitionId(layerId, a, b) \o "-to"} :
              a \in Categories, b \in Categories}

\* C38: hideLayer(layerId) also hides the transition sublayers of that layer.
\* After hideLayer returns no transition sublayer of the layer is visible on
\* the map, whichever categories the running transition goes between; and a
\* transition whose metadata fetch completes while the layer is hidden adds no
\* visible sublayer for it.
C38_HideCoversTransitions ==
    /\ [][(lastOp'.op = "hideLayer" /\ userOps' = userOps + 1) =>
            \A id \in (DOMAIN mapLayers') \cap TransitionSublayers(lastOp'.layer) :
                mapLayers'[id].visibility # "visible"]_vars
    /\ [][\A task \in fetches :
            (/\ \A t \in fetches' : t.gen # task.gen
             /\ ~activeWeatherLayers[task.layer]) =>
                \A id \in (DOMAIN mapLayers') \cap TransitionSublayers(task.layer) :
                    mapLayers'[id].visibility # "visible"]_vars

----------------------------------------------------------------------------
(* Initialisation: initWeatherControls is called from outside any number   *)
(* of times while the map is created and loads; a call that finds the map  *)
(* not loaded sets a 500 ms timer for another call.  probe holds the map's *)
(* progress, the time in units of 100 ms, the due times of the retry       *)
(* timers, and what has been registered on the map and built in the page.  *)

\* initWeatherControls calls from outside in one session of SpecInit, and the
\* time it runs for (in units of 100 ms)
MaxInitCalls == 3
MaxInitClock == 12
\* the delay of the retry timer, 500 ms, in units of 100 ms
RetryDelay == 5

InitStart ==
    [map |-> "undefined", now |-> 0, retries |-> << >>, calls |-> 0,
     handlers |-> [zoomend |-> 0, moveend |-> 0, error |-> 0],
     panels |-> 0, tileErrorHandlingSetup |-> FALSE, noops |-> 0]

\* map.on('zoomend', ...) of setupZoomChangeHandling
setupZoomChangeHandling(p) == [p EXCEPT !.handlers.zoomend = @ + 1]

\* map.on('error', ...) unless tileErrorHandlingSetup
setupTileErrorHandling(p) ==
    IF ~p.tileErrorHandlingSetup
    THEN [p EXCEPT !.handlers.error = @ + 1, !.tileErrorHandlingSetup = TRUE]
    ELSE p

\* map.on('moveend', ...), then setupTileErrorHandling
initTileManager(p) ==
    setupTileErrorHandling([p EXCEPT !.handlers.moveend = @ + 1])

\* the registrations of initWeatherControls and the control panel it builds
BuildControls(p) ==
    initTileManager([setupZoomChangeHandling(p) EXCEPT !.panels = @ + 1])

\* initWeatherControls without the isInitialized test
InitDecisionUnguarded(initialized, mapState) ==
    IF mapState # "loaded" THEN "retry" ELSE "init"

\* the head of initWeatherControls: return when initialised, set the retry
\* timer and return when there is no map or the map is not loaded, go on
\* otherwise
InitDecision(initialized, mapState) ==
    IF initialized THEN "done"
    ELSE IF mapState # "loaded" THEN "retry" ELSE "init"

\* initWeatherControls() runs
InitWeatherControlsRuns(p) ==
    CASE InitDecision(isInitialized, p.map) = "done" ->
           /\ probe' = [p EXCEPT !.noops = @ + 1]
           /\ UNCHANGED << isInitialized, activeWeatherLayers, activeKeys, weatherLayers,
                           currentZoomLevel, zoomChangeDebounceTimer, tileCache,
                           currentViewport, prefetchQueue, prefetchInProgress,
                           mapLayers, mapSources, mapZoom, mapCenter, fetches,
                           eventFetches, timers100, timers200, timers1000,
                           uncommitted, userOps, lastOp, clock, server >>
      [] InitDecision(isInitialized, p.map) = "retry" ->
           /\ probe' = [p EXCEPT !.retries = Append(@, p.now + RetryDelay)]
           /\ UNCHANGED << isInitialized, activeWeatherLayers, activeKeys, weatherLayers,
                           currentZoomLevel, zoomChangeDebounceTimer, tileCache,
                           currentViewport, prefetchQueue, prefetchInProgress,
                           mapLayers, mapSources, mapZoom, mapCenter, fetches,
                           eventFetches, timers100, timers200, timers1000,
                           uncommitted, userOps, lastOp, clock, server >>
      [] InitDecision(isInitialized, p.map) = "init" ->
           /\ probe' = BuildControls(p)
           /\ Runs("initWeatherControls", "", initWeatherControls(Cur))
           /\ UNCHANGED << zoomChangeDebounceTimer, userOps, clock, server >>

\* the page calls initWeatherControls
InitCalled ==
    /\ probe.calls < MaxInitCalls
    /\ InitWeatherControlsRuns([probe EXCEPT !.calls = @ + 1])

\* a retry timer is due: its callback calls initWeatherControls
RetryFires ==
    /\ probe.retries # << >>
    /\ Head(probe.retries) <= probe.now
    /\ InitWeatherControlsRuns([probe EXCEPT !.retries = Tail(@)])

\* the map object is created, and later its style and tiles are loaded
MapAdvances ==
    /\ probe.map # "loaded"
    /\ probe' = [probe EXCEPT !.map = IF @ = "undefined" THEN "loading" ELSE "loaded"]
    /\ UNCHANGED << isInitialized, activeWeatherLayers, activeKeys, weatherLayers,
                    currentZoomLevel, zoomChangeDebounceTimer, tileCache,
                    currentViewport, prefetchQueue, prefetchInProgress, mapLayers,
                    mapSources, mapZoom, mapCenter, fetches, eventFetches, timers100,
                    timers200, timers1000, uncommitted, userOps, lastOp, clock,
                    server >>

\* 100 ms pass; a timer that is due runs first
InitClockTick ==
    /\ probe.now < MaxInitClock
    /\ probe.retries # << >> => Head(probe.retries) > probe.now
    /\ probe' = [probe EXCEPT !.now = @ + 1]
    /\ UNCHANGED << isInitialized, activeWeatherLayers, activeKeys, weatherLayers,
                    currentZoomLevel, zoomChangeDebounceTimer, tileCache,
                    currentViewport, prefetchQueue, prefetchInProgress, mapLayers,
                    mapSources, mapZoom, mapCenter, fetches, eventFetches, timers100,
                    timers200, timers1000, uncommitted, userOps, lastOp, clock,
                    server >>

InitControls ==
    /\ InitProgram
    /\ probe = InitStart

NextInit ==
    \/ InitCalled
    \/ RetryFires
    \/ MapAdvances
    \/ InitClockTick

SpecInit == InitControls /\ [][NextInit]_vars

\* C40: initialization happens exactly once.  Whatever the number of
\* initWeatherControls calls and 500 ms retries made while the map is not
\* loaded, nothing is registered or built before the controller is
\* initialised, which happens only with the map loaded; once it is, the
\* zoomend, the moveend and the tile-error handler are each registered
\* exactly once and the control panel is built once; and every later call
\* changes nothing and sets no timer.
C40_InitializedOnce ==
    /\ [](IF isInitialized
          THEN /\ probe.handlers = [zoomend |-> 1, moveend |-> 1, error |-> 1]
               /\ probe.panels = 1
          ELSE /\ probe.handlers = [zoomend |-> 0, moveend |-> 0, error |-> 0]
               /\ probe.panels = 0)
    /\ [][(isInitialized' /\ ~isInitialized) => probe.map = "loaded"]_vars
    /\ [][isInitialized =>
            /\ UNCHANGED << isInitialized, activeWeatherLayers, weatherLayers,
                            currentZoomLevel, currentViewport, prefetchQueue,
                            mapLayers, mapSources, timers100, timers200, lastOp >>
            /\ probe'.handlers = probe.handlers
            /\ probe'.panels = probe.panels
            /\ Len(probe'.retries) <= Len(probe.retries)]_vars

\* three calls were made while the map was not loaded, a timer retried at
\* least once before the map was loaded, the controller then initialised, and
\* the two other timers found it initialised and returned: one registration
\* of each handler and one panel
C40_Witness ==
    /\ isInitialized
    /\ probe.calls = 3
    /\ probe.now >= 2 * RetryDelay
    /\ probe.noops = 2
    /\ probe.retries = << >>
    /\ probe.handlers = [zoomend |-> 1, moveend |-> 1, error |-> 1]
    /\ probe.panels = 1

====
